---- MODULE Spec2Model ----
(***************************************************************************)
(* Model of the two PS/2 touchpad protocol decoders of this repository:    *)
(* the type-tagged FocalTech decoder (src/src/focaltech.c) and the         *)
(* register-oriented Elantech decoder (the C part of src/install.sh).      *)
(***************************************************************************)
EXTENDS Integers, Sequences, FiniteSets, TLC

VARIABLES
    fingers,    \* focaltech_hw_state.fingers[FOC_MAX_FINGERS]
    pressed,    \* focaltech_hw_state.pressed
    geom,       \* focaltech_data.x_max / y_max (the words in front of the slot table)
    priv,       \* psmouse->private: "null", "valid" or "freed" (pointing at freed memory)
    etd,        \* the struct elantech_data psmouse->private points to
    packet,     \* psmouse->packet, the complete packet last handed to a decoder
    events,     \* input events emitted by the last handler call
    ret,        \* value returned by the last handler call
    op,         \* the handler that ran last
    npackets,   \* number of packets decoded so far
    pending,    \* history: slots activated by a touch packet and not yet positioned
    repeated,   \* history: the last two handler calls decoded the same packet buffer
    pktcnt,     \* psmouse->pktcnt, the number of bytes of the packet received so far
    mode,       \* the device: "default" or "extended", by the last mode command it got
    ncmds,      \* transport commands attempted by the last elantech_read_reg or
                \* elantech_write_reg called on its own
    regval,     \* *val of the last elantech_read_reg called on its own
    regops,     \* register writes and read-backs of the last elantech_set_absolute_mode
                \* called on its own
    run,        \* history: single-finger packets decoded in a row since the last
                \* packet with two or more fingers (tracked on revision 1)
    char_signed, \* whether plain char is a signed type in the build of the module
    arg,        \* what the last handler call was given besides the packet
    touched,    \* slot indices the last FocalTech packet read or wrote
    nbytes      \* history: number of bytes received so far

vars == <<fingers, pressed, geom, priv, etd, packet, events, ret, op, npackets, pending, repeated,
         pktcnt, mode, ncmds, regval, regops, run, char_signed, arg, touched, nbytes>>

-----------------------------------------------------------------------------
(* Bounds of the model *)

MaxPackets == 3
MaxBytes == 9
MaxRegLink == 3
MaxLink == 4

-----------------------------------------------------------------------------
(* C integer arithmetic *)

RECURSIVE BitAnd(_, _)
BitAnd(a, b) ==
    IF a = 0 \/ b = 0 THEN 0
    ELSE (a % 2) * (b % 2) + 2 * BitAnd(a \div 2, b \div 2)

RECURSIVE BitOr(_, _)
BitOr(a, b) ==
    IF a = 0 THEN b
    ELSE IF b = 0 THEN a
    ELSE (IF a % 2 = 1 \/ b % 2 = 1 THEN 1 ELSE 0) + 2 * BitOr(a \div 2, b \div 2)

RECURSIVE BitXor(_, _)
BitXor(a, b) ==
    IF a = 0 THEN b
    ELSE IF b = 0 THEN a
    ELSE ((a + b) % 2) + 2 * BitXor(a \div 2, b \div 2)

Shl(a, n) == a * (2 ^ n)
Shr(a, n) == a \div (2 ^ n)

\* An unsigned int is held as the int with the same 32 bits (its two's complement
\* reading, which is also the value an int parameter receives from it): -1 stands
\* for 0xffffffff.  Sums and differences of such values are then the plain ones;
\* only the comparisons differ.
UGt(a, b) == IF (a < 0) = (b < 0) THEN a > b ELSE a < 0
UGe(a, b) == a = b \/ UGt(a, b)
\* (char) of a byte, char being signed
SChar(b) == IF b >= 128 THEN b - 256 ELSE b

Bool(v) == IF v # 0 THEN 1 ELSE 0

-----------------------------------------------------------------------------
(* The input event sink: the calls a handler makes, in order *)

Key(code, value) == <<"KEY", code, Bool(value)>>
Abs(code, value) == <<"ABS", code, value>>
MtSlot(slot) == <<"MT_SLOT", "", slot>>
MtSlotState(active) == <<"MT_SLOT_STATE", "MT_TOOL_FINGER", Bool(active)>>
Sync == <<"SYN", "SYN_REPORT", 0>>

PSMOUSE_BAD_DATA == "PSMOUSE_BAD_DATA"
PSMOUSE_GOOD_DATA == "PSMOUSE_GOOD_DATA"
PSMOUSE_FULL_PACKET == "PSMOUSE_FULL_PACKET"

-----------------------------------------------------------------------------
(* FocalTech: src/src/focaltech.h, src/src/focaltech.c *)

FOC_TOUCH == 3
FOC_ABS == 6
FOC_REL == 9
FOC_MAX_FINGERS == 5
FOC_MAX_Y == 1663

Slots == 0 .. (FOC_MAX_FINGERS - 1)

focaltech_invert_y(y) == FOC_MAX_Y - y

\* kzalloc'ed struct focaltech_data
FocZeroFingers == [i \in Slots |-> [active |-> FALSE, valid |-> FALSE, x |-> 0, y |-> 0]]
FocZeroGeom == [x_max |-> 0, y_max |-> 0]

\* variants: a touch loop that clears valid on every touched slot, and a touch
\* handler that never clears it
TouchLoop_ClearAlways(f, bits, i) ==
    [j \in Slots |->
        IF BitAnd(Shr(bits, j), 1) # 0
        THEN [f[j] EXCEPT !.active = TRUE, !.valid = FALSE]
        ELSE [f[j] EXCEPT !.active = FALSE]]
process_touch_packet_KeepValid(state, p) ==
    [state EXCEPT !.pressed = (BitAnd(Shr(p[0], 4), 1) # 0),
                  !.fingers = [j \in Slots |->
                                 [@[j] EXCEPT !.active = (BitAnd(Shr(p[1], j), 1) # 0)]]]

\* state is the record [fingers, pressed, geom]
RECURSIVE TouchLoop(_, _, _)
TouchLoop(f, bits, i) ==
    IF i >= FOC_MAX_FINGERS THEN f
    ELSE LET cleared == IF BitAnd(bits, 1) # 0 /\ ~f[i].active
                        THEN [f EXCEPT ![i].valid = FALSE]
                        ELSE f
         IN TouchLoop([cleared EXCEPT ![i].active = (BitAnd(bits, 1) # 0)],
                      Shr(bits, 1), i + 1)

process_touch_packet(state, p) ==
    [state EXCEPT !.pressed = (BitAnd(Shr(p[0], 4), 1) # 0),
                  !.fingers = TouchLoop(state.fingers, p[1], 0)]

\* variant: the finger nibble taken as the slot index
AbsFinger_NoOffset(p) == Shr(p[1], 4)

\* unsigned int finger = (packet[1] >> 4) - 1
AbsFinger(p) == Shr(p[1], 4) - 1

\* variant: the position taken from a packet with the large contact value too
process_abs_packet_NoSentinel(state, p) ==
    LET finger == AbsFinger(p)
        st1 == [state EXCEPT !.pressed = (BitAnd(Shr(p[0], 4), 1) # 0)]
    IN IF UGe(finger, FOC_MAX_FINGERS) THEN st1
       ELSE [st1 EXCEPT
                !.fingers[finger].x = BitOr(Shl(BitAnd(p[1], 15), 8), p[2]),
                !.fingers[finger].y = BitOr(Shl(p[3], 8), p[4]),
                !.fingers[finger].valid = TRUE]

process_abs_packet(state, p) ==
    LET finger == AbsFinger(p)
        st1 == [state EXCEPT !.pressed = (BitAnd(Shr(p[0], 4), 1) # 0)]
    IN IF UGe(finger, FOC_MAX_FINGERS) THEN st1
       ELSE IF p[5] = 255 THEN st1
       ELSE [st1 EXCEPT
                !.fingers[finger].x = BitOr(Shl(BitAnd(p[1], 15), 8), p[2]),
                !.fingers[finger].y = BitOr(Shl(p[3], 8), p[4]),
                !.fingers[finger].valid = TRUE]

\* int finger1 = ((packet[0] >> 4) & 0x7) - 1, int finger2 = ((packet[3] >> 4) & 0x7) - 1
RelFinger1(p) == BitAnd(Shr(p[0], 4), 7) - 1
RelFinger2(p) == BitAnd(Shr(p[3], 4), 7) - 1

\* (char)b of a byte b: plain char is signed or unsigned as the build has it
\* (the compiler of the target, -funsigned-char); unsigned, the cast keeps the byte
CharCast(b) == IF char_signed THEN SChar(b) ELSE b

\* state->fingers[finger].x += dx, .y += dy.  The only index below 0 that gets here
\* is -1 (finger1 is compared as a signed int): fingers[-1].x and fingers[-1].y are
\* the two words in front of the slot table, x_max and y_max of struct focaltech_data.
RelAdd(state, finger, dx, dy) ==
    IF finger >= 0
    THEN [state EXCEPT !.fingers[finger].x = @ + CharCast(dx),
                       !.fingers[finger].y = @ + CharCast(dy)]
    ELSE [state EXCEPT !.geom.x_max = @ + CharCast(dx),
                       !.geom.y_max = @ + CharCast(dy)]

process_rel_packet(state, p) ==
    LET finger1 == RelFinger1(p)
        finger2 == RelFinger2(p)
        st1 == [state EXCEPT !.pressed = (Shr(p[0], 7) # 0)]
        st2 == IF finger1 < FOC_MAX_FINGERS
               THEN RelAdd(st1, finger1, p[1], p[2])
               ELSE st1
    IN IF finger2 # -1 /\ finger2 < FOC_MAX_FINGERS
       THEN RelAdd(st2, finger2, p[4], p[5])
       ELSE st2

MtPointerEmulation == <<"MT_POINTER_EMULATION", "", 0>>
MtFingerCount(n) == <<"MT_FINGER_COUNT", "", n>>

\* variant: a slot reported in contact as soon as it is active
RECURSIVE ReportLoop_ActiveOnly(_, _, _, _)
ReportLoop_ActiveOnly(f, i, count, out) ==
    IF i >= FOC_MAX_FINGERS THEN [count |-> count, out |-> out]
    ELSE LET active == f[i].active
             head == <<MtSlot(i), MtSlotState(IF active THEN 1 ELSE 0)>>
         IN IF active
            THEN ReportLoop_ActiveOnly(f, i + 1, count + 1,
                            out \o head \o
                            <<Abs("ABS_MT_POSITION_X", f[i].x),
                              Abs("ABS_MT_POSITION_Y", focaltech_invert_y(f[i].y))>>)
            ELSE ReportLoop_ActiveOnly(f, i + 1, count, out \o head)

RECURSIVE ReportLoop(_, _, _, _)
ReportLoop(f, i, count, out) ==
    IF i >= FOC_MAX_FINGERS THEN [count |-> count, out |-> out]
    ELSE LET active == f[i].active /\ f[i].valid
             head == <<MtSlot(i), MtSlotState(IF active THEN 1 ELSE 0)>>
         IN IF active
            THEN ReportLoop(f, i + 1, count + 1,
                            out \o head \o
                            <<Abs("ABS_MT_POSITION_X", f[i].x),
                              Abs("ABS_MT_POSITION_Y", focaltech_invert_y(f[i].y))>>)
            ELSE ReportLoop(f, i + 1, count, out \o head)

focaltech_report_state(state) ==
    LET r == ReportLoop(state.fingers, 0, 0, <<>>)
    IN r.out \o <<MtPointerEmulation, MtFingerCount(r.count),
                  Key("BTN_LEFT", IF state.pressed THEN 1 ELSE 0), Sync>>

PacketType(p) == BitAnd(p[0], 15)

\* variant: a packet of no known type handled as a touch packet
focaltech_dispatch_DefaultTouch(state, p) ==
    CASE PacketType(p) = FOC_ABS -> process_abs_packet(state, p)
      [] PacketType(p) = FOC_REL -> process_rel_packet(state, p)
      [] OTHER -> process_touch_packet(state, p)

\* the switch of focaltech_process_packet
focaltech_dispatch(state, p) ==
    CASE PacketType(p) = FOC_TOUCH -> process_touch_packet(state, p)
      [] PacketType(p) = FOC_ABS -> process_abs_packet(state, p)
      [] PacketType(p) = FOC_REL -> process_rel_packet(state, p)
      [] OTHER -> state

\* a packet buffer, indexed from 0 as psmouse->packet is
Pkt(s) == [i \in 0 .. (Len(s) - 1) |-> s[i + 1]]

\* 6-byte packets fed to the FocalTech decoder
FocTouchPackets ==
    { Pkt(<<b0, b1, 0, 0, 0, 0>>) : b0 \in {3, 19}, b1 \in {0, 1, 4, 5, 31} }
FocAbsPackets ==
    { Pkt(<<6, 16, 100, 0, 200, 16>>),      \* slot 0, x = 100, y = 200
      Pkt(<<22, 25, 44, 6, 127, 32>>),      \* slot 0, x = 0x92c, y = 0x67f, pressed
      Pkt(<<6, 16, 100, 0, 200, 255>>),     \* slot 0, large contact
      Pkt(<<6, 48, 50, 0, 60, 16>>),        \* slot 2
      Pkt(<<6, 48, 50, 0, 60, 255>>),       \* slot 2, large contact
      Pkt(<<6, 80, 7, 1, 8, 16>>),          \* slot 4
      Pkt(<<6, 0, 1, 0, 1, 16>>),           \* finger nibble 0
      Pkt(<<6, 96, 1, 0, 1, 16>>) }         \* finger nibble 6
FocRelPackets ==
    { Pkt(<<25, 5, 251, 0, 0, 0>>),         \* finger 0 only
      Pkt(<<25, 128, 3, 48, 2, 254>>),      \* fingers 0 and 2
      Pkt(<<153, 1, 1, 16, 1, 1>>),         \* finger 0 twice, pressed
      Pkt(<<9, 1, 2, 0, 0, 0>>),            \* first-finger field 0
      Pkt(<<121, 1, 1, 96, 1, 1>>) }        \* fields 7 and 6
FocUnknownPackets ==
    { Pkt(<<0, 31, 0, 0, 0, 0>>), Pkt(<<31, 16, 100, 0, 200, 16>>) }
FocPackets == FocTouchPackets \cup FocAbsPackets \cup FocRelPackets \cup FocUnknownPackets

\* the indices i of state->fingers[i] that the handlers of a packet and
\* focaltech_report_state use
SlotsTouched(p) ==
    (CASE PacketType(p) = FOC_TOUCH -> Slots
       [] PacketType(p) = FOC_ABS ->
            IF UGe(AbsFinger(p), FOC_MAX_FINGERS) \/ p[5] = 255 THEN {} ELSE {AbsFinger(p)}
       [] PacketType(p) = FOC_REL ->
            (IF RelFinger1(p) < FOC_MAX_FINGERS THEN {RelFinger1(p)} ELSE {})
            \cup (IF RelFinger2(p) # -1 /\ RelFinger2(p) < FOC_MAX_FINGERS
                  THEN {RelFinger2(p)} ELSE {})
       [] OTHER -> {})
    \cup Slots

\* a handler call with no input besides the packet
NoArg == <<>>
\* no packet with two or more fingers decoded yet, or a packet without finger since
NoRun == [armed |-> FALSE, n |-> 0]
\* no register access counted
NoRegOps == [writes |-> 0, reads |-> 0, write_failed |-> FALSE, read_ok |-> FALSE]

\* history of the slots a touch packet has activated and no position packet has
\* reached since
PendingAfter(old, new, p) ==
    [i \in Slots |->
        IF PacketType(p) = FOC_TOUCH /\ ~old[i].active /\ new[i].active THEN TRUE
        ELSE IF PacketType(p) = FOC_ABS /\ Shr(p[1], 4) = i + 1 /\ p[5] # 255 THEN FALSE
        ELSE pending[i]]

focaltech_process_packet(p) ==
    /\ priv = "valid"
    /\ npackets < MaxPackets
    /\ LET st == focaltech_dispatch(
                    [fingers |-> fingers, pressed |-> pressed, geom |-> geom], p)
       IN /\ fingers' = st.fingers
          /\ pressed' = st.pressed
          /\ geom' = st.geom
          /\ events' = focaltech_report_state(st)
          /\ pending' = PendingAfter(fingers, st.fingers, p)
    /\ packet' = p
    /\ ret' = PSMOUSE_FULL_PACKET
    /\ op' = "focaltech_process_packet"
    /\ npackets' = npackets + 1
    /\ touched' = SlotsTouched(p)
    /\ arg' = NoArg
    /\ UNCHANGED <<priv, etd, repeated, pktcnt, mode, ncmds, regval, nbytes, regops, run, char_signed>>

-----------------------------------------------------------------------------
(* Elantech: the C source carried in src/install.sh *)

\* a zeroed struct elantech_data (kzalloc); also what is left when there is none
NoSession ==
    [hw_version |-> 0, fw_version |-> 0, capabilities |-> 0, debug |-> 0,
     paritycheck |-> 0, jumpy_cursor |-> FALSE, reports_pressure |-> FALSE,
     single_finger_reports |-> 0, x_max |-> 0, y_max |-> 0, y_max_2ft |-> 0,
     reg_10 |-> 0, reg_11 |-> 0, reg_21 |-> 0,
     parity |-> [b \in 0 .. 255 |-> 0]]

\* elantech.h is not among the sources; these are the values of its macros
ETP_CAP_HAS_ROCKER == 4
ETP_XMAX_V1 == 576
ETP_YMAX_V1 == 384
ETP_XMAX_V2 == 1152
ETP_YMAX_V2 == 768
ETP_2FT_YMAX == 192

Bytes == 0 .. 255

\* etd->parity[0] = 1;
\* variants of the index the loop reads
ParityPrev_Half(i) == i \div 2
ParityPrev_Zero(i) == 0

\* for (i = 1; i < 256; i++) etd->parity[i] = etd->parity[i & (i - 1)] ^ 1;
\* Iteration i reads entry i & (i - 1), which is below i and so was written by an
\* earlier iteration (or is entry 0): the loop leaves the table below.
ParityPrev(i) == BitAnd(i, i - 1)

parity_loop[i \in Bytes] ==
    IF i = 0 THEN 1 ELSE BitXor(parity_loop[ParityPrev(i)], 1)

ParityInit == [i \in Bytes |-> parity_loop[i]]

\* fingers of elantech_report_absolute_v1
V1Fingers(e, p) ==
    IF e.fw_version < \H020000
    THEN Shr(BitAnd(p[1], \H80), 7) + Shr(BitAnd(p[1], \H30), 4)
    ELSE Shr(BitAnd(p[0], \Hc0), 6)

\* variant: the filter applied whether or not the session has the quirk
JumpyFilter_Always(e, nfingers) ==
    IF nfingers # 1
    THEN [etd |-> [e EXCEPT !.single_finger_reports = 0], discard |-> FALSE]
    ELSE IF e.single_finger_reports < 2
    THEN [etd |-> [e EXCEPT !.single_finger_reports = @ + 1], discard |-> TRUE]
    ELSE [etd |-> e, discard |-> FALSE]

\* variant: three single-finger reports discarded instead of two
JumpyFilter_DiscardThree(e, nfingers) ==
    IF e.jumpy_cursor
    THEN IF nfingers # 1
         THEN [etd |-> [e EXCEPT !.single_finger_reports = 0], discard |-> FALSE]
         ELSE IF e.single_finger_reports < 3
         THEN [etd |-> [e EXCEPT !.single_finger_reports = @ + 1], discard |-> TRUE]
         ELSE [etd |-> e, discard |-> FALSE]
    ELSE [etd |-> e, discard |-> FALSE]

\* the jumpy cursor filter of elantech_report_absolute_v1:
\* [etd after the filter, whether the packet is discarded]
JumpyFilter(e, nfingers) ==
    IF e.jumpy_cursor
    THEN IF nfingers # 1
         THEN [etd |-> [e EXCEPT !.single_finger_reports = 0], discard |-> FALSE]
         ELSE IF e.single_finger_reports < 2
         THEN [etd |-> [e EXCEPT !.single_finger_reports = @ + 1], discard |-> TRUE]
         ELSE [etd |-> e, discard |-> FALSE]
    ELSE [etd |-> e, discard |-> FALSE]

elantech_report_absolute_v1(e, p) ==
    LET nfingers == V1Fingers(e, p)
        f == JumpyFilter(e, nfingers)
    IN IF f.discard THEN [etd |-> f.etd, events |-> <<>>]
       ELSE [etd |-> f.etd,
             events |->
                <<Key("BTN_TOUCH", IF nfingers # 0 THEN 1 ELSE 0)>>
                \o (IF nfingers # 0
                    THEN <<Abs("ABS_X", BitOr(Shl(BitAnd(p[1], \H0c), 6), p[2])),
                           Abs("ABS_Y", e.y_max - BitOr(Shl(BitAnd(p[1], \H03), 8), p[3]))>>
                    ELSE <<>>)
                \o <<Key("BTN_TOOL_FINGER", IF nfingers = 1 THEN 1 ELSE 0),
                      Key("BTN_TOOL_DOUBLETAP", IF nfingers = 2 THEN 1 ELSE 0),
                      Key("BTN_TOOL_TRIPLETAP", IF nfingers = 3 THEN 1 ELSE 0),
                      Key("BTN_LEFT", BitAnd(p[0], \H01)),
                      Key("BTN_RIGHT", BitAnd(p[0], \H02))>>
                \o (IF e.fw_version < \H020000
                       /\ BitAnd(e.capabilities, ETP_CAP_HAS_ROCKER) # 0
                    THEN <<Key("BTN_FORWARD", BitAnd(p[0], \H40)),
                           Key("BTN_BACK", BitAnd(p[0], \H80))>>
                    ELSE <<>>)
                \o <<Sync>>]

elantech_set_slot(slot, active, x, y) ==
    <<MtSlot(slot), MtSlotState(IF active THEN 1 ELSE 0)>>
    \o (IF active
        THEN <<Abs("ABS_MT_POSITION_X", x), Abs("ABS_MT_POSITION_Y", y)>>
        ELSE <<>>)

\* variant: the second slot active whenever the first is
elantech_report_semi_mt_data_BothActive(num_fingers, x1, y1, x2, y2) ==
    elantech_set_slot(0, num_fingers # 0, x1, y1)
    \o elantech_set_slot(1, num_fingers # 0, x2, y2)

\* elantech_report_semi_mt_data
elantech_report_semi_mt_data(num_fingers, x1, y1, x2, y2) ==
    elantech_set_slot(0, num_fingers # 0, x1, y1)
    \o elantech_set_slot(1, num_fingers = 2, x2, y2)

\* the tail of elantech_report_absolute_v2, after the switch
V2Tail(e, p, nfingers, x1, y1, x2, y2, pres, width) ==
    elantech_report_semi_mt_data(nfingers, x1, y1, x2, y2)
    \o <<Key("BTN_TOOL_FINGER", IF nfingers = 1 THEN 1 ELSE 0),
          Key("BTN_TOOL_DOUBLETAP", IF nfingers = 2 THEN 1 ELSE 0),
          Key("BTN_TOOL_TRIPLETAP", IF nfingers = 3 THEN 1 ELSE 0),
          Key("BTN_TOOL_QUADTAP", IF nfingers = 4 THEN 1 ELSE 0),
          Key("BTN_LEFT", BitAnd(p[0], \H01)),
          Key("BTN_RIGHT", BitAnd(p[0], \H02))>>
    \o (IF e.reports_pressure
        THEN <<Abs("ABS_PRESSURE", pres), Abs("ABS_TOOL_WIDTH", width)>>
        ELSE <<>>)
    \o <<Sync>>

elantech_report_absolute_v2(e, p) ==
    LET n0 == Shr(BitAnd(p[0], \Hc0), 6)
        touch == <<Key("BTN_TOUCH", IF n0 # 0 THEN 1 ELSE 0)>>
    IN CASE n0 = 3 \/ n0 = 1 ->
             LET nfingers == IF n0 = 3 /\ BitAnd(p[3], \H80) # 0 THEN 4 ELSE n0
                 x1 == BitOr(Shl(BitAnd(p[1], \H07), 8), p[2])
                 y1 == e.y_max - BitOr(Shl(BitAnd(p[4], \H03), 8), p[5])
                 pres == BitOr(BitAnd(p[1], \Hf0), Shr(BitAnd(p[4], \Hf0), 4))
                 width == BitOr(Shr(BitAnd(p[0], \H30), 2), Shr(BitAnd(p[3], \H30), 4))
             IN touch \o <<Abs("ABS_X", x1), Abs("ABS_Y", y1)>>
                \o V2Tail(e, p, nfingers, x1, y1, 0, 0, pres, width)
         [] n0 = 2 ->
             LET x1 == BitOr(Shl(BitAnd(p[0], \H10), 4), p[1])
                 y1 == e.y_max_2ft - BitOr(Shl(BitAnd(p[0], \H20), 3), p[2])
                 x2 == BitOr(Shl(BitAnd(p[3], \H10), 4), p[4])
                 y2 == e.y_max_2ft - BitOr(Shl(BitAnd(p[3], \H20), 3), p[5])
             IN touch \o <<Abs("ABS_X", Shl(x1, 2)), Abs("ABS_Y", Shl(y1, 2))>>
                \o V2Tail(e, p, 2, x1, y1, x2, y2, 127, 7)
         [] OTHER ->
             touch \o V2Tail(e, p, n0, 0, 0, 0, 0, 0, 0)

\* psmouse->pktsize = etd->hw_version == 1 ? 4 : 6
pktsize(e) == IF e.hw_version = 1 THEN 4 ELSE 6

\* variants: a copy that lands one entry too high, a range test on x alone, and a
\* decoder that never reads the stash
Stash_OffByOne(tab, p, n) ==
    [i \in Bytes |-> IF 1 <= i /\ i <= n THEN p[i - 1] ELSE tab[i]]
V3Reject_XOnly(e, nfingers, x1, y1) == nfingers # 0 /\ UGt(x1, e.x_max)
V3Packet1_Current(e, p, nfingers) == p

\* memcpy(etd->parity, packet1, psmouse->pktsize)
Stash(tab, p, n) == [i \in Bytes |-> IF i < n THEN p[i] ELSE tab[i]]

\* the rejection of "crazy values" in elantech_report_absolute_v3
V3Reject(e, nfingers, x1, y1) ==
    nfingers # 0 /\ (UGt(x1, e.x_max) \/ UGt(y1, e.y_max))

\* packet1 and packet2 of elantech_report_absolute_v3 for a packet that is not stashed
V3Packet1(e, p, nfingers) == IF nfingers = 2 THEN e.parity ELSE p

elantech_report_absolute_v3(e, p) ==
    LET nfingers == Shr(BitAnd(p[0], \Hc0), 6)
    IN IF nfingers = 2 /\ BitAnd(p[0], \H0c) = \H04
       THEN [etd |-> [e EXCEPT !.parity = Stash(e.parity, p, pktsize(e))],
             events |-> <<>>, ret |-> PSMOUSE_FULL_PACKET]
       ELSE
         LET packet1 == V3Packet1(e, p, nfingers)
             two == (nfingers = 2)
             x1 == BitOr(Shl(BitAnd(packet1[1], \H0f), 8), packet1[2])
             y1 == e.y_max - BitOr(Shl(BitAnd(packet1[4], \H0f), 8), packet1[5])
             x2 == IF two THEN BitOr(Shl(BitAnd(p[1], \H0f), 8), p[2]) ELSE 0
             y2 == IF two
                   THEN e.y_max - BitOr(Shl(BitAnd(p[4], \H0f), 8), p[5])
                   ELSE 0
             pres == BitOr(BitAnd(packet1[1], \Hf0), Shr(BitAnd(packet1[4], \Hf0), 4))
             width == BitOr(Shr(BitAnd(packet1[0], \H30), 2),
                            Shr(BitAnd(packet1[3], \H30), 4))
         IN IF V3Reject(e, nfingers, x1, y1)
            THEN [etd |-> e, events |-> <<>>, ret |-> PSMOUSE_FULL_PACKET]
            ELSE [etd |-> e,
                  events |->
                     elantech_report_semi_mt_data(nfingers, x1, y1, x2, y2)
                     \o <<Key("BTN_TOUCH", IF nfingers # 0 THEN 1 ELSE 0),
                           Key("BTN_TOOL_FINGER", IF nfingers = 1 THEN 1 ELSE 0),
                           Key("BTN_TOOL_DOUBLETAP", IF nfingers = 2 THEN 1 ELSE 0),
                           Key("BTN_TOOL_TRIPLETAP", IF nfingers = 3 THEN 1 ELSE 0)>>
                     \o (IF e.reports_pressure
                         THEN <<Abs("ABS_PRESSURE", pres), Abs("ABS_TOOL_WIDTH", width)>>
                         ELSE <<>>)
                     \o (IF nfingers # 0
                         THEN <<Abs("ABS_X", x1), Abs("ABS_Y", y1)>>
                         ELSE <<>>)
                     \o <<Key("BTN_LEFT", BitAnd(packet1[0], \H01)),
                           Key("BTN_RIGHT", BitAnd(packet1[0], \H02)), Sync>>,
                  ret |-> PSMOUSE_FULL_PACKET]

\* variant: p3 not checked
elantech_check_parity_v1_NoP3(e, p) ==
    LET p1 == IF e.fw_version < \H020000
              THEN Shr(BitAnd(p[0], \H20), 5)
              ELSE Shr(BitAnd(p[0], \H10), 4)
        p2 == IF e.fw_version < \H020000
              THEN Shr(BitAnd(p[0], \H10), 4)
              ELSE Shr(BitAnd(p[0], \H20), 5)
    IN e.parity[p[1]] = p1 /\ e.parity[p[2]] = p2

elantech_check_parity_v1(e, p) ==
    LET p1 == IF e.fw_version < \H020000
              THEN Shr(BitAnd(p[0], \H20), 5)
              ELSE Shr(BitAnd(p[0], \H10), 4)
        p2 == IF e.fw_version < \H020000
              THEN Shr(BitAnd(p[0], \H10), 4)
              ELSE Shr(BitAnd(p[0], \H20), 5)
        p3 == Shr(BitAnd(p[0], \H04), 2)
    IN e.parity[p[1]] = p1 /\ e.parity[p[2]] = p2 /\ e.parity[p[3]] = p3

\* elantech_process_byte once psmouse->pktcnt has reached psmouse->pktsize
elantech_process_byte(e, p) ==
    CASE e.hw_version = 1 ->
            IF e.paritycheck # 0 /\ ~elantech_check_parity_v1(e, p)
            THEN [etd |-> e, events |-> <<>>, ret |-> PSMOUSE_BAD_DATA]
            ELSE LET r == elantech_report_absolute_v1(e, p)
                 IN [etd |-> r.etd, events |-> r.events, ret |-> PSMOUSE_FULL_PACKET]
      [] e.hw_version = 2 ->
            [etd |-> e, events |-> elantech_report_absolute_v2(e, p),
             ret |-> PSMOUSE_FULL_PACKET]
      [] e.hw_version = 3 -> elantech_report_absolute_v3(e, p)
      [] OTHER -> [etd |-> e, events |-> <<>>, ret |-> PSMOUSE_FULL_PACKET]

\* more macros of elantech.h
ETP_R10_ABSOLUTE_MODE == 4
ETP_R11_4_BYTE_MODE == 2

\* A reply of the device to an info query is its three bytes; a failed command
\* has no reply.
Fail == <<>>
Failed(reply) == Len(reply) = 0

\* ETP_PS2_COMMAND_TRIES
ETP_PS2_COMMAND_TRIES == 3

\* The transport as the driver sees it: link is the sequence of results of its
\* successive calls of ps2_command and psmouse_sliced_command (0 for success, an
\* error code otherwise); calls beyond the end of link succeed.
Outcome(link, k) == IF k <= Len(link) THEN link[k] ELSE 0
\* one call of ps2_command or psmouse_sliced_command after done earlier calls:
\* its result and the calls made so far
TransportCall(link, done) == [rc |-> Outcome(link, done + 1), calls |-> done + 1]

\* do { rc = ps2_command(...); if (rc == 0) break; tries--; } while (tries > 0)
RECURSIVE RetryLoop(_, _, _)
RetryLoop(link, done, tries) ==
    LET r == TransportCall(link, done)
    IN IF r.rc = 0 THEN r
       ELSE IF tries - 1 > 0 THEN RetryLoop(link, r.calls, tries - 1)
       ELSE r

\* variant: one try more than ETP_PS2_COMMAND_TRIES
elantech_ps2_command_FourTries(link, done) ==
    RetryLoop(link, done, ETP_PS2_COMMAND_TRIES + 1)

\* elantech_ps2_command, a retrying version of ps2_command
elantech_ps2_command(link, done) == RetryLoop(link, done, ETP_PS2_COMMAND_TRIES)

\* n commands joined by ||, each of them elantech_ps2_command when retried is
\* TRUE and a plain call otherwise: -1 at the first that fails
RECURSIVE OrChain(_, _, _, _)
OrChain(n, retried, link, done) ==
    IF n = 0 THEN [rc |-> 0, calls |-> done]
    ELSE LET r == IF retried THEN elantech_ps2_command(link, done)
                  ELSE TransportCall(link, done)
         IN IF r.rc # 0 THEN [rc |-> -1, calls |-> r.calls]
            ELSE OrChain(n - 1, retried, link, r.calls)

\* a link on which the first command fails for good
HardFail == <<-1, -1, -1>>

\* focaltech_switch_protocol: six ps2_command calls, -EIO at the first that fails
focaltech_switch_protocol(link) ==
    LET r == OrChain(6, FALSE, link, 0)
    IN [rc |-> IF r.rc = 0 THEN "0" ELSE "-EIO", calls |-> r.calls]

\* the commands elantech_write_reg chains with || for the session's revision:
\* no case for revision 3 in the switch
WriteChain(e) ==
    CASE e.hw_version = 1 -> 4
      [] e.hw_version = 2 -> 7
      [] OTHER -> 0

\* the commands elantech_read_reg chains with ||
ReadChain(e) ==
    CASE e.hw_version = 1 -> 3
      [] e.hw_version \in {2, 3} -> 5
      [] OTHER -> 0

\* variant: the chain of revision 1 retried as well
ChainRetried_Always(e) == TRUE

\* case 1 chains psmouse_sliced_command and ps2_command, the other cases
\* elantech_ps2_command
ChainRetried(e) == e.hw_version # 1

\* elantech_write_reg: its result and the transport calls it makes
elantech_write_reg(e, reg, val, link) ==
    IF reg < \H10 \/ reg > \H26 THEN [rc |-> -1, calls |-> 0]
    ELSE IF reg > \H11 /\ reg < \H20 THEN [rc |-> -1, calls |-> 0]
    ELSE OrChain(WriteChain(e), ChainRetried(e), link, 0)

\* elantech_read_reg: its result and the transport calls it makes
elantech_read_reg(e, reg, link) ==
    IF reg < \H10 \/ reg > \H26 THEN [rc |-> -1, calls |-> 0]
    ELSE IF reg > \H11 /\ reg < \H20 THEN [rc |-> -1, calls |-> 0]
    ELSE OrChain(ReadChain(e), ChainRetried(e), link, 0)

\* ETP_READ_BACK_TRIES
ETP_READ_BACK_TRIES == 5

\* what is left of a link after n calls
Rest(link, n) == SubSeq(link, n + 1, Len(link))

\* elantech_mode_command: the register written, then read, and the value read
\* (echo) compared with the value written
elantech_mode_command(e, reg, val, link, echo) ==
    LET w == OrChain(4, FALSE, link, 0)
        r == OrChain(3, FALSE, link, w.calls)
    IN IF w.rc # 0 THEN [rc |-> -1, calls |-> w.calls, wrote |-> FALSE]
       ELSE IF r.rc # 0 THEN [rc |-> -1, calls |-> r.calls, wrote |-> TRUE]
       ELSE [rc |-> IF val # echo THEN -1 ELSE 0, calls |-> r.calls, wrote |-> TRUE]

\* the registers elantech_set_absolute_mode writes on revisions 1 and 2
AbsWrites(e) ==
    CASE e.hw_version = 1 -> <<[reg |-> \H10, val |-> \H16], [reg |-> \H11, val |-> \H8f]>>
      [] e.hw_version = 2 -> <<[reg |-> \H10, val |-> \H54], [reg |-> \H11, val |-> \H88],
                               [reg |-> \H21, val |-> \H60]>>
      [] OTHER -> <<>>

\* elantech_write_reg(...) || elantech_write_reg(...) || ...: n writes made so far
RECURSIVE WriteAll(_, _, _, _)
WriteAll(e, ws, link, n) ==
    IF ws = <<>> THEN [rc |-> 0, link |-> link, writes |-> n]
    ELSE LET r == elantech_write_reg(e, Head(ws).reg, Head(ws).val, link)
         IN IF r.rc # 0
            THEN [rc |-> -1, link |-> Rest(link, r.calls), writes |-> n + 1]
            ELSE WriteAll(e, Tail(ws), Rest(link, r.calls), n + 1)

\* do { rc = elantech_read_reg(psmouse, 0x10, &val); if (rc == 0) break;
\*      tries--; } while (tries > 0): n reads made so far
RECURSIVE ReadBack(_, _, _, _)
ReadBack(e, link, tries, n) ==
    LET r == elantech_read_reg(e, \H10, link)
    IN IF r.rc = 0 THEN [rc |-> 0, reads |-> n + 1]
       ELSE IF tries - 1 > 0 THEN ReadBack(e, Rest(link, r.calls), tries - 1, n + 1)
       ELSE [rc |-> r.rc, reads |-> n + 1]

\* variant: the value read back not looked at on any revision
AbsBitMissing_Never(e, val) == FALSE

\* etd->hw_version == 1 && !(val & ETP_R10_ABSOLUTE_MODE)
AbsBitMissing(e, val) == e.hw_version = 1 /\ BitAnd(val, ETP_R10_ABSOLUTE_MODE) = 0

\* elantech_set_absolute_mode over io = [link, val]: the transport results and
\* the byte the device answers to a read: [etd, rc], the register writes and
\* read-backs made, whether one of the writes failed, whether a read-back
\* succeeded, and whether the write of register 0x10 went through
elantech_set_absolute_mode(e, io) ==
    LET e1 == CASE e.hw_version = 1 -> [e EXCEPT !.reg_10 = \H16, !.reg_11 = \H8f]
                [] e.hw_version = 2 ->
                     [e EXCEPT !.reg_10 = \H54, !.reg_11 = \H88, !.reg_21 = \H60]
                [] e.hw_version = 3 -> [e EXCEPT !.reg_10 = \H0f]
                [] OTHER -> e
    IN IF e.hw_version = 3
       THEN LET c == elantech_mode_command(e1, \H10, e1.reg_10, io.link, io.val)
            IN [etd |-> e1, rc |-> c.rc, writes |-> 1, reads |-> 0, wrote |-> c.wrote,
                write_failed |-> ~c.wrote, read_ok |-> FALSE]
       ELSE LET w == WriteAll(e1, AbsWrites(e1), io.link, 0)
            IN IF w.rc # 0
               THEN [etd |-> e1, rc |-> -1, writes |-> w.writes, reads |-> 0,
                     wrote |-> w.writes > 1, write_failed |-> TRUE, read_ok |-> FALSE]
               ELSE LET r == ReadBack(e1, w.link, ETP_READ_BACK_TRIES, 0)
                    IN [etd |-> e1,
                        rc |-> IF r.rc # 0 THEN r.rc
                               ELSE IF AbsBitMissing(e1, io.val) THEN -1 ELSE 0,
                        writes |-> w.writes, reads |-> r.reads, wrote |-> TRUE,
                        write_failed |-> FALSE, read_ok |-> (r.rc = 0)]

\* a link and a device on which elantech_set_absolute_mode goes through (the
\* answer has the absolute mode bit of revision 1 and is the value revision 3
\* writes), and a dead link
AbsIo(ok) == IF ok THEN [link |-> <<>>, val |-> \H0f] ELSE [link |-> HardFail, val |-> \H0f]

\* the geometry part of elantech_set_input_params
elantech_set_input_params(e, geometry) ==
    CASE e.hw_version = 1 ->
            [etd |-> [e EXCEPT !.x_max = ETP_XMAX_V1, !.y_max = ETP_YMAX_V1], rc |-> 0]
      [] e.hw_version = 3 ->
            IF Failed(geometry) THEN [etd |-> e, rc |-> -1]
            ELSE LET ymax == BitOr(Shl(BitAnd(geometry[1], \Hf0), 4), geometry[3])
                 IN [etd |-> [e EXCEPT
                                !.x_max = BitOr(Shl(BitAnd(geometry[1], \H0f), 8),
                                                geometry[2]),
                                !.y_max = ymax,
                                !.y_max_2ft = ymax],
                     rc |-> 0]
      [] OTHER ->
            [etd |-> [e EXCEPT !.x_max = ETP_XMAX_V2, !.y_max = ETP_YMAX_V2,
                               !.y_max_2ft = ETP_2FT_YMAX],
             rc |-> 0]

\* variant: the micro byte of the version not masked off
InitRevision_NoMask(fw, probe1, probe2_ok) ==
    IF fw < \H020030 THEN 1
    ELSE IF fw <= \H140000 THEN 2
    ELSE IF /\ ~Failed(probe1) /\ probe2_ok
            /\ BitAnd(probe1[1], \H0f) >= 5 /\ BitAnd(probe1[2], \H0f) >= 6
         THEN 3
         ELSE 0

\* the hardware revision elantech_init derives from the firmware version and the
\* capability probes; 0 when detection fails
InitRevision(fw, probe1, probe2_ok) ==
    IF fw < \H020030 THEN 1
    ELSE IF fw - (fw % 256) <= \H140000 THEN 2
    ELSE IF /\ ~Failed(probe1) /\ probe2_ok
            /\ BitAnd(probe1[1], \H0f) >= 5 /\ BitAnd(probe1[2], \H0f) >= 6
         THEN 3
         ELSE 0

\* the fields elantech_init sets along with the revision
InitVersionFields(e, fw, hw) ==
    CASE hw = 1 -> [e EXCEPT !.fw_version = fw, !.hw_version = 1, !.paritycheck = 1]
      [] hw = 2 -> [e EXCEPT !.fw_version = fw, !.hw_version = 2, !.debug = 1,
                             !.reports_pressure = (fw >= \H020800)]
      [] hw = 3 -> [e EXCEPT !.fw_version = fw, !.hw_version = 3, !.debug = 1,
                             !.reports_pressure = TRUE]
      [] OTHER -> [e EXCEPT !.fw_version = fw]

\* elantech_init against a device that behaves as dev says:
\* [ok, etd, private, rc]; when ok is FALSE etd has been freed (init_fail), and
\* psmouse->private still holds its address unless the allocation itself failed
elantech_init(dev) ==
    LET e0 == [NoSession EXCEPT !.parity = ParityInit]
        fail == [ok |-> FALSE, etd |-> NoSession, private |-> "freed", rc |-> "-1"]
    IN IF ~dev.alloc_ok
       THEN [ok |-> FALSE, etd |-> NoSession, private |-> "null", rc |-> "-ENOMEM"]
       ELSE IF Failed(dev.fw) THEN fail
       ELSE
         LET fw == BitOr(BitOr(Shl(dev.fw[1], 16), Shl(dev.fw[2], 8)), dev.fw[3])
             hw == InitRevision(fw, dev.probe1, dev.probe2_ok)
             e1 == InitVersionFields(e0, fw, hw)
         IN IF hw = 0 THEN fail
            ELSE IF Failed(dev.caps) THEN fail
            ELSE
              LET e2 == [e1 EXCEPT !.capabilities = dev.caps[1],
                                   !.jumpy_cursor = (fw = \H020022 \/ fw = \H020600)]
                  m == elantech_set_absolute_mode(e2, AbsIo(dev.absmode_ok))
                  g == elantech_set_input_params(m.etd, dev.geometry)
              IN IF m.rc # 0 THEN fail
                 ELSE IF g.rc # 0 THEN fail
                 ELSE IF ~dev.sysfs_ok THEN fail
                 ELSE [ok |-> TRUE, etd |-> g.etd, private |-> "valid", rc |-> "0"]

\* the attributes of ELANTECH_INT_ATTR modelled here: field of etd and register
ElantechAttrs ==
    { [field |-> "reg_10", reg |-> \H10],
      [field |-> "reg_11", reg |-> \H11],
      [field |-> "reg_21", reg |-> \H21],
      [field |-> "debug", reg |-> 0],
      [field |-> "paritycheck", reg |-> 0] }

\* elantech_set_int_attr: etd after a write of value (already parsed) to attr
elantech_set_int_attr(e, attr, value, io_ok) ==
    IF value > \Hff THEN e
    ELSE LET v == IF e.hw_version = 1 /\ attr.reg = \H10
                  THEN BitOr(value, ETP_R10_ABSOLUTE_MODE)
                  ELSE IF e.hw_version = 1 /\ attr.reg = \H11
                  THEN BitOr(value, ETP_R11_4_BYTE_MODE)
                  ELSE value
         IN IF attr.reg = 0
               \/ elantech_write_reg(e, attr.reg, v, IF io_ok THEN <<>> ELSE HardFail).rc = 0
            THEN [e EXCEPT ![attr.field] = v]
            ELSE e

\* elantech_show_int_attr: etd after attr has been read
elantech_show_int_attr(e, attr, reply) ==
    IF attr.reg # 0
       /\ elantech_read_reg(e, attr.reg, IF Failed(reply) THEN HardFail ELSE <<>>).rc = 0
    THEN [e EXCEPT ![attr.field] = reply[1]]
    ELSE e

\* variant: the sample rates not looked at
elantech_is_signature_valid_NoRates(param) == param[1] # 0

\* elantech_is_signature_valid
elantech_is_signature_valid(param) ==
    IF param[1] = 0 THEN FALSE
    ELSE IF param[2] = 0 THEN TRUE
    ELSE param[3] \notin {200, 100, 80, 60, 40, 20, 10}

elantech_magic_knocks == { <<\H3c, \H03, \Hc8>>, <<\H3c, \H03, \H00>> }

\* elantech_detect against a device that answers the magic knock with knock and
\* the firmware version query with fw (Fail: a command of that sequence failed),
\* force being the module parameter force_elantech.  The result of the first
\* command, PSMOUSE_CMD_RESET_DIS, is not looked at (reset_ok), and a knock reply
\* that is none of elantech_magic_knocks is only logged.
elantech_detect(reset_ok, knock, fw, force) ==
    IF Failed(knock) THEN -1
    ELSE IF Failed(fw) THEN -1
    ELSE IF ~elantech_is_signature_valid(fw) /\ ~force THEN -1
    ELSE 0

\* the device's mode after elantech_set_absolute_mode: a call that fails may or
\* may not have got its first register write through (wrote)
ModeAfterAbsolute(m, ok, wrote) ==
    IF ok \/ wrote THEN "extended" ELSE m

\* the device's mode after elantech_init, which sends no command that leaves
\* absolute mode: not on any path to init_fail either
ModeAfterInit(m, dev, wrote) ==
    IF ~dev.alloc_ok \/ Failed(dev.fw) THEN m
    ELSE LET fw == BitOr(BitOr(Shl(dev.fw[1], 16), Shl(dev.fw[2], 8)), dev.fw[3])
         IN IF InitRevision(fw, dev.probe1, dev.probe2_ok) = 0 \/ Failed(dev.caps)
            THEN m
            ELSE ModeAfterAbsolute(m, dev.absmode_ok, wrote)

\* elantech_reconnect: [etd, rc]
elantech_reconnect(e, detect_ok, io_ok) ==
    IF ~detect_ok THEN [etd |-> e, rc |-> -1]
    ELSE elantech_set_absolute_mode(e, AbsIo(io_ok))

-----------------------------------------------------------------------------
(* Specifications *)

\* the session focaltech_init leaves behind
InitFoc ==
    /\ fingers = FocZeroFingers
    /\ pressed = FALSE
    /\ geom = FocZeroGeom
    /\ priv = "valid"
    /\ etd = NoSession
    /\ packet = Pkt(<<0, 0, 0, 0, 0, 0>>)
    /\ events = <<>>
    /\ ret = "0"
    /\ op = "focaltech_init"
    /\ npackets = 0
    /\ pending = [i \in Slots |-> FALSE]
    /\ repeated = FALSE
    /\ pktcnt = 0
    /\ mode = "extended"
    /\ ncmds = 0
    /\ regval = 0
    /\ regops = NoRegOps
    /\ run = NoRun
    /\ char_signed \in BOOLEAN
    /\ arg = NoArg
    /\ touched = {}
    /\ nbytes = 0

\* focaltech_init: [private, mode, rc]
focaltech_init(switch_ok, alloc_ok) ==
    IF ~switch_ok THEN [private |-> "null", mode |-> "default", rc |-> "-ENOSYS"]
    ELSE IF ~alloc_ok THEN [private |-> "null", mode |-> "extended", rc |-> "-ENOMEM"]
    ELSE [private |-> "valid", mode |-> "extended", rc |-> "0"]

\* focaltech_reconnect: [mode, rc]; a switch sequence that fails may or may not
\* have switched the device already (switched)
focaltech_reconnect(switch_ok, switched) ==
    IF switch_ok THEN [mode |-> "extended", rc |-> "0"]
    ELSE [mode |-> IF switched THEN "extended" ELSE "default", rc |-> "-1"]

FocQuiet ==
    /\ events' = <<>>
    /\ touched' = {}
    /\ UNCHANGED <<etd, packet, npackets, repeated, pktcnt, ncmds, regval, nbytes, regops, run, char_signed>>

FocInit(switch_ok, alloc_ok) ==
    /\ priv = "null"
    /\ LET r == focaltech_init(switch_ok, alloc_ok)
       IN /\ priv' = r.private
          /\ mode' = r.mode
          /\ ret' = r.rc
    /\ fingers' = FocZeroFingers
    /\ pressed' = FALSE
    /\ geom' = FocZeroGeom
    /\ pending' = [i \in Slots |-> FALSE]
    /\ arg' = [switch_ok |-> switch_ok, alloc_ok |-> alloc_ok]
    /\ op' = "focaltech_init"
    /\ FocQuiet

\* focaltech_reconnect leaves priv->state as it is
FocReconnect(switch_ok, switched) ==
    /\ priv = "valid"
    /\ LET r == focaltech_reconnect(switch_ok, switched)
       IN mode' = r.mode /\ ret' = r.rc
    /\ arg' = [switch_ok |-> switch_ok, switched |-> switched]
    /\ op' = "focaltech_reconnect"
    /\ FocQuiet
    /\ UNCHANGED <<priv, fingers, pressed, geom, pending, char_signed>>

\* focaltech_disconnect: focaltech_reset, kfree(psmouse->private), NULL
FocDisconnect ==
    /\ priv = "valid"
    /\ priv' = "null"
    /\ mode' = "default"
    /\ ret' = "0"
    /\ fingers' = FocZeroFingers
    /\ pressed' = FALSE
    /\ geom' = FocZeroGeom
    /\ pending' = [i \in Slots |-> FALSE]
    /\ arg' = NoArg
    /\ op' = "focaltech_disconnect"
    /\ FocQuiet

NextFoc ==
    \/ \E p \in FocPackets : focaltech_process_packet(p)
    \/ \E s \in BOOLEAN, a \in BOOLEAN : FocInit(s, a)
    \/ \E s \in BOOLEAN, w \in BOOLEAN : FocReconnect(s, w)
    \/ FocDisconnect

SpecFoc == InitFoc /\ [][NextFoc]_vars

\* what the device may answer during elantech_detect
KnockReplies == { Fail, <<\H3c, \H03, \Hc8>>, <<\H3c, \H03, \H00>>, <<\H3c, \H03, \H01>>,
                  <<0, 0, 0>> }
DetectFwReplies == { Fail, <<2, 0, \H30>>, <<0, 0, 0>>, <<2, 6, 100>>, <<2, 6, 0>>,
                     <<\H45, \H0f, 7>> }

\* what the device may answer during elantech_init
FwReplies ==
    { Fail, <<1, 0, 0>>, <<2, 0, \H22>>, <<2, 0, \H30>>, <<2, 6, 0>>, <<2, 8, 0>>,
      <<\H45, \H0f, 0>> }
ProbeReplies == { Fail, <<5, 6, 0>>, <<4, 6, 0>> }
CapsReplies == { Fail, <<0, 0, 0>>, <<4, 0, 0>> }
GeometryReplies == { Fail, <<\H8c, \H80, 0>> }     \* x_max = 0xc80, y_max = 0x800
\* the rocker capability is tried with the firmware that reports the rocker
DevBehaviours ==
    { d \in [alloc_ok : BOOLEAN, fw : FwReplies, probe1 : ProbeReplies,
              probe2_ok : BOOLEAN, caps : CapsReplies, absmode_ok : BOOLEAN,
              geometry : GeometryReplies, sysfs_ok : BOOLEAN] :
        /\ d.caps = <<4, 0, 0>> => d.fw = <<1, 0, 0>>
        /\ ~d.alloc_ok => (d.fw = <<1, 0, 0>> /\ d.probe1 = Fail /\ ~d.probe2_ok
                           /\ d.caps = Fail /\ ~d.absmode_ok /\ d.geometry = Fail
                           /\ ~d.sysfs_ok) }

\* complete packets fed to the Elantech decoders
V1Packets ==
    { Pkt(<<b0, t[1], t[2], t[3]>>) :
        b0 \in {\H3c, \H7c, \Hbc, \Hfd, \H78, \H5c, \H6c, \H48},
        t \in { <<0, 0, 0>>, <<\H0f, \Hff, \Hff>>, <<1, 2, 4>>,
                <<\H90, 3, \H0c>>, <<\Hb0, 0, 0>>, <<\H10, 5, 6>> } }
V2Packets ==
    { Pkt(<<\H40, \H01, \Hf4, \H00, \H01, \H2c>>),   \* one finger, x = 500, y = 300
      Pkt(<<\H71, \Hf7, \Hff, \H30, \Hf3, \Hff>>),
      Pkt(<<\Hc0, \H01, \Hf4, \H00, \H01, \H2c>>),   \* three fingers
      Pkt(<<\Hc2, \H01, \Hf4, \H80, \H01, \H2c>>),   \* more than three
      Pkt(<<\H80, \H10, \H20, \H00, \H30, \H40>>),   \* two fingers
      Pkt(<<\Hb0, \Hff, \Hff, \H30, \Hff, \Hff>>),
      Pkt(<<\H00, 0, 0, 0, 0, 0>>),
      Pkt(<<\H03, \H01, \Hf4, \H00, \H01, \H2c>>) }
V3Packets ==
    { Pkt(<<\H84, \H01, \H00, \H00, \H01, \H00>>),   \* first half, in bounds
      Pkt(<<\H85, \H0f, \Hff, \H30, \H00, \H10>>),   \* first half, x beyond x_max
      Pkt(<<\H84, \H01, \H00, \H00, \H0f, \Hff>>),   \* first half, y beyond y_max
      Pkt(<<\H80, \H02, \H00, \H00, \H02, \H00>>),   \* second half, in bounds
      Pkt(<<\H82, \H0f, \Hff, \H00, \H0f, \Hff>>),   \* second half, beyond bounds
      Pkt(<<\H40, \H03, \H10, \H10, \H03, \H00>>),   \* one finger, in bounds
      Pkt(<<\H41, \H0f, \Hff, \H00, \H00, \H00>>),   \* one finger, x beyond x_max
      Pkt(<<\H42, \H01, \H00, \H00, \H0f, \Hff>>),   \* one finger, y beyond y_max
      Pkt(<<\Hc0, \H01, \H01, \H00, \H01, \H01>>),   \* three fingers
      Pkt(<<\H00, \H0f, \Hff, \H00, \H00, \H00>>),   \* no finger
      Pkt(<<\H03, 0, 0, 0, 0, 0>>) }
ElanPackets(e) ==
    CASE e.hw_version = 1 -> V1Packets
      [] e.hw_version = 2 -> V2Packets
      [] e.hw_version = 3 -> V3Packets
      [] OTHER -> {}

\* attribute writes and reads tried: [attr, value written] and [attr, reply to the read]
Attr(field) == CHOOSE a \in ElantechAttrs : a.field = field
AttrWrites ==
    { [attr |-> Attr("paritycheck"), value |-> 0],
      [attr |-> Attr("paritycheck"), value |-> 1],
      [attr |-> Attr("reg_10"), value |-> \H01],
      [attr |-> Attr("reg_10"), value |-> \H100] }
AttrReads ==
    { [attr |-> Attr("reg_10"), reply |-> Fail],
      [attr |-> Attr("reg_10"), reply |-> <<\H16, 0, 0>>],
      [attr |-> Attr("paritycheck"), reply |-> Fail] }

ElanQuiet(r) ==
    /\ events' = <<>>
    /\ ret' = r
    /\ repeated' = FALSE
    /\ UNCHANGED <<fingers, pressed, geom, npackets, pending, pktcnt, ncmds, regval, touched, nbytes, regops, run, char_signed>>

\* elantech_detect: PSMOUSE_CMD_RESET_DIS, the magic knock, the version query
ElanDetect(reset_ok, knock, fw, force) ==
    /\ priv \in {"null", "freed"}
    /\ ElanQuiet(IF elantech_detect(reset_ok, knock, fw, force) = 0 THEN "0" ELSE "-1")
    /\ mode' = IF reset_ok THEN "default" ELSE mode
    /\ arg' = [reset_ok |-> reset_ok, knock |-> knock, fw |-> fw, force |-> force]
    /\ op' = "elantech_detect"
    /\ UNCHANGED <<priv, etd, packet, char_signed>>

\* elantech_init, which the caller tries once elantech_detect has returned 0
ElanInit(dev, wrote) ==
    /\ priv \in {"null", "freed"}
    /\ op = "elantech_detect" /\ ret = "0"
    /\ LET r == elantech_init(dev)
       IN /\ priv' = r.private
          /\ etd' = r.etd
          /\ ElanQuiet(r.rc)
    /\ mode' = ModeAfterInit(mode, dev, wrote)
    /\ arg' = dev
    /\ packet' = Pkt(<<0, 0, 0, 0, 0, 0>>)
    /\ op' = "elantech_init"

ElanByteStep(p) ==
    /\ priv = "valid"
    /\ LET r == elantech_process_byte(etd, p)
       IN /\ etd' = r.etd
          /\ events' = r.events
          /\ ret' = r.ret
    /\ packet' = p
    /\ repeated' = (op = "elantech_process_byte" /\ packet = p)
    /\ op' = "elantech_process_byte"
    /\ arg' = NoArg
    /\ UNCHANGED <<priv, fingers, pressed, geom, npackets, pending,
                   pktcnt, mode, ncmds, regval, touched, nbytes, regops, char_signed>>

ElanProcessByte(p) ==
    /\ ElanByteStep(p)
    /\ UNCHANGED run

ElanSetAttr(attr, value, io_ok) ==
    /\ priv = "valid"
    /\ etd' = elantech_set_int_attr(etd, attr, value, io_ok)
    /\ ElanQuiet(IF value > \Hff THEN "-EINVAL" ELSE "count")
    /\ op' = "elantech_set_int_attr"
    /\ arg' = NoArg
    /\ UNCHANGED <<priv, packet, mode, char_signed>>

ElanShowAttr(attr, reply) ==
    /\ priv = "valid"
    /\ etd' = elantech_show_int_attr(etd, attr, reply)
    /\ ElanQuiet("count")
    /\ op' = "elantech_show_int_attr"
    /\ arg' = NoArg
    /\ UNCHANGED <<priv, packet, mode, char_signed>>

ElanReconnect(detect_ok, io_ok, wrote) ==
    /\ priv = "valid"
    /\ LET r == elantech_reconnect(etd, detect_ok, io_ok)
       IN /\ etd' = r.etd
          /\ ElanQuiet(IF r.rc = 0 THEN "0" ELSE "-1")
    /\ mode' = IF detect_ok THEN ModeAfterAbsolute("default", io_ok, wrote)
               ELSE "default"
    /\ arg' = NoArg
    /\ op' = "elantech_reconnect"
    /\ UNCHANGED <<priv, packet, char_signed>>

\* elantech_disconnect: kfree(psmouse->private); psmouse->private = NULL
ElanDisconnect ==
    /\ priv = "valid"
    /\ priv' = "null"
    /\ etd' = NoSession
    /\ ElanQuiet("0")
    /\ packet' = Pkt(<<0, 0, 0, 0, 0, 0>>)
    /\ arg' = NoArg
    /\ op' = "elantech_disconnect"
    /\ UNCHANGED mode

InitElan ==
    /\ fingers = FocZeroFingers
    /\ pressed = FALSE
    /\ geom = FocZeroGeom
    /\ priv = "null"
    /\ etd = NoSession
    /\ packet = Pkt(<<0, 0, 0, 0, 0, 0>>)
    /\ events = <<>>
    /\ ret = "0"
    /\ op = "none"
    /\ npackets = 0
    /\ pending = [i \in Slots |-> FALSE]
    /\ repeated = FALSE
    /\ pktcnt = 0
    /\ mode = "default"
    /\ ncmds = 0
    /\ regval = 0
    /\ regops = NoRegOps
    /\ run = NoRun
    /\ char_signed = TRUE
    /\ arg = NoArg
    /\ touched = {}
    /\ nbytes = 0

NextElan ==
    \/ \E r \in BOOLEAN, k \in KnockReplies, fw \in DetectFwReplies, force \in BOOLEAN :
            ElanDetect(r, k, fw, force)
    \/ \E dev \in DevBehaviours, wrote \in BOOLEAN : ElanInit(dev, wrote)
    \/ \E p \in ElanPackets(etd) : ElanProcessByte(p)
    \/ \E w \in AttrWrites, ok \in BOOLEAN : ElanSetAttr(w.attr, w.value, ok)
    \/ \E r \in AttrReads : ElanShowAttr(r.attr, r.reply)
    \/ \E d \in BOOLEAN, ok \in BOOLEAN, wrote \in BOOLEAN : ElanReconnect(d, ok, wrote)
    \/ ElanDisconnect

SpecElan == InitElan /\ [][NextElan]_vars

-----------------------------------------------------------------------------
(* The byte stream: psmouse->protocol_handler called for every byte received *)

\* What the caller of the protocol handler does around it, as the description of
\* the byte assembler has it: the byte is appended to the buffer before the call,
\* and the buffer is cleared once it has been handed to the decoder.
StoreByte(buf, cnt, b) == [buf EXCEPT ![cnt] = b]
PktcntAfter(cnt, rc) == IF rc = PSMOUSE_GOOD_DATA THEN cnt ELSE 0

\* variant: a packet taken to be full one byte early
FocFullPacket_Five(cnt) == cnt >= 5

\* focaltech_process_byte: psmouse->pktcnt >= 6
FocFullPacket(cnt) == cnt >= 6
\* elantech_process_byte: psmouse->pktcnt < psmouse->pktsize
ElanPartialPacket(e, cnt) == cnt < pktsize(e)

\* bytes of the stream, and the sessions that receive them
FeedBytes == {\H3c, \H16}
ByteSessions == { elantech_init(d).etd : d \in {x \in DevBehaviours : elantech_init(x).ok} }

FocFeed(b) ==
    /\ priv = "valid" /\ etd.hw_version = 0
    /\ nbytes < MaxBytes
    /\ LET buf == StoreByte(packet, pktcnt, b)
           cnt == pktcnt + 1
       IN /\ packet' = buf
          /\ IF FocFullPacket(cnt)
             THEN LET st == focaltech_dispatch(
                               [fingers |-> fingers, pressed |-> pressed, geom |-> geom],
                               buf)
                  IN /\ fingers' = st.fingers
                     /\ pressed' = st.pressed
                     /\ geom' = st.geom
                     /\ events' = focaltech_report_state(st)
                     /\ pending' = PendingAfter(fingers, st.fingers, buf)
                     /\ touched' = SlotsTouched(buf)
                     /\ npackets' = npackets + 1
                     /\ ret' = PSMOUSE_FULL_PACKET
                     /\ pktcnt' = PktcntAfter(cnt, PSMOUSE_FULL_PACKET)
             ELSE /\ events' = <<>>
                  /\ ret' = PSMOUSE_GOOD_DATA
                  /\ pktcnt' = PktcntAfter(cnt, PSMOUSE_GOOD_DATA)
                  /\ UNCHANGED <<fingers, pressed, geom, pending, touched, npackets, char_signed>>
    /\ nbytes' = nbytes + 1
    /\ arg' = b
    /\ op' = "focaltech_process_byte"
    /\ UNCHANGED <<priv, etd, repeated, mode, ncmds, regval, regops, run, char_signed>>

ElanFeed(b) ==
    /\ priv = "valid" /\ etd.hw_version \in {1, 2, 3}
    /\ nbytes < MaxBytes
    /\ LET buf == StoreByte(packet, pktcnt, b)
           cnt == pktcnt + 1
       IN /\ packet' = buf
          /\ IF ElanPartialPacket(etd, cnt)
             THEN /\ events' = <<>>
                  /\ ret' = PSMOUSE_GOOD_DATA
                  /\ pktcnt' = PktcntAfter(cnt, PSMOUSE_GOOD_DATA)
                  /\ UNCHANGED <<etd, npackets, char_signed>>
             ELSE LET r == elantech_process_byte(etd, buf)
                  IN /\ etd' = r.etd
                     /\ events' = r.events
                     /\ ret' = r.ret
                     /\ pktcnt' = PktcntAfter(cnt, r.ret)
                     /\ npackets' = npackets + 1
    /\ nbytes' = nbytes + 1
    /\ arg' = b
    /\ op' = "elantech_process_byte"
    /\ UNCHANGED <<priv, fingers, pressed, geom, pending, touched, repeated, mode, ncmds, regval, regops, run, char_signed>>

\* a session of either family, just created
InitBytes ==
    /\ fingers = FocZeroFingers
    /\ pressed = FALSE
    /\ geom = FocZeroGeom
    /\ priv = "valid"
    /\ etd \in {NoSession} \cup ByteSessions
    /\ packet = Pkt(<<0, 0, 0, 0, 0, 0>>)
    /\ events = <<>>
    /\ ret = "0"
    /\ op = IF etd.hw_version = 0 THEN "focaltech_init" ELSE "elantech_init"
    /\ npackets = 0
    /\ pending = [i \in Slots |-> FALSE]
    /\ repeated = FALSE
    /\ pktcnt = 0
    /\ mode = "extended"
    /\ ncmds = 0
    /\ regval = 0
    /\ regops = NoRegOps
    /\ run = NoRun
    /\ char_signed = TRUE
    /\ arg = NoArg
    /\ touched = {}
    /\ nbytes = 0

NextBytes ==
    \/ \E b \in FeedBytes : FocFeed(b)
    \/ \E b \in FeedBytes : ElanFeed(b)

SpecBytes == InitBytes /\ [][NextBytes]_vars

-----------------------------------------------------------------------------
(* Claims about the FocalTech slot table *)

FocStep == op' = "focaltech_process_packet" /\ npackets' = npackets + 1
Bit(b, i) == (b \div (2 ^ i)) % 2 = 1

\* C2: from the moment a touch packet turns slot i from inactive to active until a
\* non-sentinel absolute packet addressed to slot i is processed, slot i's valid
\* flag is false; and no packet other than a non-sentinel absolute packet addressed
\* to slot i ever sets slot i's valid flag.
C2_ValidFalseUntilPositioned ==
    /\ [](\A i \in Slots : pending[i] => ~fingers[i].valid)
    /\ [][\A i \in Slots :
            (~fingers[i].valid /\ fingers'[i].valid) =>
                /\ PacketType(packet') = FOC_ABS
                /\ Shr(packet'[1], 4) = i + 1
                /\ packet'[5] # 255]_vars

\* a slot that holds the position of an earlier absolute packet and is then
\* activated by a touch packet: active, and not valid
C2_Witness ==
    /\ pending[0] /\ fingers[0].active /\ ~fingers[0].valid
    /\ fingers[0].x = 100
    /\ PacketType(packet) = FOC_TOUCH

\* C3: after a touch packet every slot i has active equal to bit i of byte 1; a slot
\* that was inactive and is now active has valid = false; a slot that was already
\* active keeps its valid flag; no slot's x or y changes.
C3_TouchPacket ==
    [][(FocStep /\ PacketType(packet') = FOC_TOUCH) =>
        \A i \in Slots :
            /\ fingers'[i].active = Bit(packet'[1], i)
            /\ (~fingers[i].active /\ fingers'[i].active) => ~fingers'[i].valid
            /\ fingers[i].active => (fingers'[i].valid = fingers[i].valid)
            /\ fingers'[i].x = fingers[i].x
            /\ fingers'[i].y = fingers[i].y]_vars

\* slots 0 and 2 touched: slot 0 was active and positioned before and stays valid,
\* slot 2 is new and not valid
C3_Witness ==
    /\ op = "focaltech_process_packet" /\ PacketType(packet) = FOC_TOUCH
    /\ packet[1] = 5
    /\ fingers[0].active /\ fingers[0].valid /\ fingers[0].x = 100
    /\ fingers[2].active /\ ~fingers[2].valid
    /\ ~fingers[1].active

\* C4: an absolute packet addressed to slot k in 0..4 with byte 5 # 0xff leaves
\* slot k valid with x = ((byte1 & 0xf) << 8) | byte2 and y = (byte3 << 8) | byte4,
\* and leaves active, valid, x and y of every other slot unchanged.
C4_AbsPacket ==
    [][(/\ FocStep /\ PacketType(packet') = FOC_ABS
        /\ Shr(packet'[1], 4) - 1 \in Slots
        /\ packet'[5] # 255) =>
        LET k == Shr(packet'[1], 4) - 1
        IN /\ fingers'[k].valid
           /\ fingers'[k].x = (packet'[1] % 16) * 256 + packet'[2]
           /\ fingers'[k].y = packet'[3] * 256 + packet'[4]
           /\ fingers'[k].active = fingers[k].active
           /\ \A i \in Slots \ {k} : fingers'[i] = fingers[i]]_vars

\* touch on slots 0 and 2, then the position of slot 0 (100, 200): slot 2 is still
\* active and not valid
C4_Witness ==
    /\ op = "focaltech_process_packet" /\ PacketType(packet) = FOC_ABS
    /\ packet[5] # 255
    /\ fingers[0].active /\ fingers[0].valid
    /\ fingers[0].x = 100 /\ fingers[0].y = 200
    /\ fingers[2].active /\ ~fingers[2].valid

\* C12: a complete packet whose byte-0 low nibble is none of 0x3, 0x6 and 0x9
\* changes no session state: active, valid, x and y of every slot and the pressed
\* flag are as before, and the session stays in place for the packets that follow.
C12_UnknownTypeIgnored ==
    [][(FocStep /\ PacketType(packet') \notin {3, 6, 9}) =>
        /\ fingers' = fingers
        /\ pressed' = pressed
        /\ geom' = geom
        /\ priv' = "valid"
        /\ ret' = PSMOUSE_FULL_PACKET]_vars

\* a packet of type 0 with all bitmap bits set, received by a session whose slot 0
\* holds a position: nothing has changed
C12_Witness ==
    /\ op = "focaltech_process_packet"
    /\ PacketType(packet) = 0 /\ packet[1] = 31
    /\ fingers[0].valid /\ fingers[0].x = 100 /\ ~fingers[0].active
    /\ ~fingers[4].active

\* C14: after a successful reconnect the decoder's persistent state is that of a
\* freshly created session: every slot inactive and not valid, the button released.
C14_ReconnectRecreatesState ==
    (op = "focaltech_reconnect" /\ ret = "0") =>
        /\ \A i \in Slots : ~fingers[i].active /\ ~fingers[i].valid
        /\ ~pressed

\* a session reconnected with slot 0 still active and positioned, button pressed
C14_Witness ==
    /\ op = "focaltech_reconnect" /\ ret = "0" /\ mode = "extended"
    /\ fingers[0].active /\ fingers[0].valid /\ pressed

\* a packet has just been handed to focaltech_process_packet
FocPacketStep == op' = "focaltech_process_packet"

\* C20: whatever the 6-byte packet, every slot that packet processing reads or
\* writes has an index in 0..FOC_MAX_FINGERS-1, and nothing outside the slot
\* table is modified; in particular not by a relative packet whose first-finger
\* or second-finger field is 0, 6 or 7
C20_SlotIndexSafety ==
    [][FocPacketStep => (touched' \subseteq Slots /\ geom' = geom)]_vars

\* C20: a relative packet with first-finger field 0 has been processed, with
\* index -1 and the word in front of the slot table changed by its delta
C20_Witness ==
    /\ op = "focaltech_process_packet" /\ PacketType(packet) = FOC_REL
    /\ (packet[0] \div 16) % 8 = 0
    /\ -1 \in touched
    /\ geom.x_max = FocZeroGeom.x_max + packet[1]

\* slot i is in contact for the frame: both active and valid
Reportable(i) == fingers[i].active /\ fingers[i].valid

\* the places of the frame ev where an event with this type and code stands
EventPlaces(ev, type, code) ==
    {k \in 1 .. Len(ev) : ev[k][1] = type /\ ev[k][2] = code}

\* the frame ev selects slot i once, reports it in contact iff it is reportable,
\* and reports its position, with y inverted, right after that iff it is
SlotReportedAsItIs(ev, i) ==
    \E k \in 1 .. (Len(ev) - 2) :
        /\ ev[k] = MtSlot(i)
        /\ \A j \in 1 .. Len(ev) : ev[j] = MtSlot(i) => j = k
        /\ ev[k + 1] = MtSlotState(IF Reportable(i) THEN 1 ELSE 0)
        /\ IF Reportable(i)
           THEN /\ ev[k + 2] = Abs("ABS_MT_POSITION_X", fingers[i].x)
                /\ ev[k + 3] = Abs("ABS_MT_POSITION_Y", FOC_MAX_Y - fingers[i].y)
           ELSE ev[k + 2][1] # "ABS"

\* C26: the frame emitted after every complete FocalTech packet reports each slot
\* 0..4 in contact iff the slot is both active and valid, reports a position
\* (x, FOC_MAX_Y - y) for these slots only, and reports as finger count the number
\* of these slots; the emission leaves the slot table as the packet handler left it.
C26_FrameEmission ==
    /\ [](op = "focaltech_process_packet" =>
            /\ \A i \in Slots : SlotReportedAsItIs(events, i)
            /\ Cardinality(EventPlaces(events, "ABS", "ABS_MT_POSITION_X"))
                   = Cardinality({i \in Slots : Reportable(i)})
            /\ Cardinality(EventPlaces(events, "ABS", "ABS_MT_POSITION_Y"))
                   = Cardinality({i \in Slots : Reportable(i)})
            /\ \E k \in 1 .. Len(events) :
                   events[k] = MtFingerCount(Cardinality({i \in Slots : Reportable(i)})))
    /\ [][FocPacketStep =>
            fingers' = focaltech_dispatch(
                          [fingers |-> fingers, pressed |-> pressed, geom |-> geom],
                          packet').fingers]_vars

\* a frame was emitted with one slot in contact at a position with y not 0 and
\* another slot active but not yet valid
C26_Witness ==
    /\ op = "focaltech_process_packet"
    /\ \E i \in Slots : Reportable(i) /\ fingers[i].y # 0
    /\ \E i \in Slots : fingers[i].active /\ ~fingers[i].valid
    /\ \E i \in Slots : ~fingers[i].active /\ fingers[i].valid
    /\ events # <<>>

\* what a relative packet p adds to x (bytes 1 and 4) or y (bytes 2 and 5) of slot
\* i, the bytes taken as signed 8-bit values
RelDelta(p, i, b1, b2) ==
    (IF RelFinger1(p) = i THEN SChar(p[b1]) ELSE 0)
    + (IF RelFinger2(p) = i THEN SChar(p[b2]) ELSE 0)

AbsIgnored(p) == ((p[1] \div 16) - 1) \notin (0 .. 4) \/ p[5] = 255

\* C28: an absolute packet whose finger index is outside 0..4, or whose byte 5 is
\* the large contact value 0xff, leaves active, valid, x and y of every slot as
\* they were, the addressed slot included.
C28_IgnoredAbsPacket ==
    [][(FocPacketStep /\ PacketType(packet') = FOC_ABS /\ AbsIgnored(packet')) =>
        \A i \in Slots :
            /\ fingers'[i].active = fingers[i].active
            /\ fingers'[i].valid = fingers[i].valid
            /\ fingers'[i].x = fingers[i].x
            /\ fingers'[i].y = fingers[i].y]_vars

\* a large contact packet for slot 2 was processed while slot 2 was active and
\* waiting for its first position, and slot 2 still waits
C28_Witness ==
    /\ op = "focaltech_process_packet" /\ PacketType(packet) = FOC_ABS
    /\ packet[5] = 255 /\ packet[1] \div 16 = 3
    /\ fingers[2].active /\ ~fingers[2].valid
    /\ fingers[2].x # packet[2]

\* the fixed packet size of the session
PacketSize == IF etd.hw_version = 1 THEN 4 ELSE 6
FeedStep == nbytes' = nbytes + 1

\* C11: with the accumulation count cleared after each packet handed to the
\* decoder, the decoder runs exactly once per complete packet (every 6th byte for
\* the type-tagged family and revisions 2 and 3, every 4th byte for revision 1),
\* never on a partial packet, and every other byte returns "need more data".
C11_OncePerCompletePacket ==
    /\ [](npackets = nbytes \div PacketSize /\ pktcnt = nbytes % PacketSize)
    /\ [][FeedStep =>
            IF nbytes' % PacketSize = 0
            THEN /\ npackets' = npackets + 1
                 /\ pktcnt + 1 = PacketSize
                 /\ ret' # PSMOUSE_GOOD_DATA
            ELSE /\ npackets' = npackets
                 /\ ret' = PSMOUSE_GOOD_DATA
                 /\ events' = <<>>]_vars

\* a revision-1 session that has received nine bytes: two packets decoded, the
\* first byte of the third in the buffer
C11_Witness ==
    /\ etd.hw_version = 1 /\ nbytes = 9 /\ npackets = 2 /\ pktcnt = 1
    /\ ret = PSMOUSE_GOOD_DATA

-----------------------------------------------------------------------------
(* Claims about the Elantech decoders *)

ElanDecodeStep == op' = "elantech_process_byte"
Decoded == op = "elantech_process_byte"
Created == priv = "valid" /\ op = "elantech_init"

\* revision 3: finger count, first-half marker, decoded fields
V3Count(p) == p[0] \div 64
V3First(p) == V3Count(p) = 2 /\ (p[0] \div 4) % 4 = 1
V3Second(p) == V3Count(p) = 2 /\ (p[0] \div 4) % 4 # 1
V3X(p) == (p[1] % 16) * 256 + p[2]
V3RawY(p) == (p[4] % 16) * 256 + p[5]
V3InBounds(e, p) == V3X(p) <= e.x_max /\ V3RawY(p) <= e.y_max
Syncs(ev) == Cardinality({i \in 1 .. Len(ev) : ev[i] = Sync})
HasEvent(ev, type, code) == \E i \in 1 .. Len(ev) : ev[i][1] = type /\ ev[i][2] = code

\* C1: on revision 3 a complete packet with finger count 2 and the marker
\* (byte0 & 0x0c) = 0x04 emits no event and is only stashed; the next complete
\* packet, with finger count 2 and no marker, then emits exactly one frame with
\* slot 0 active at the position of the stashed packet and slot 1 active at the
\* position of the new packet, both positions being within the geometry bounds.
C1_TwoPacketReassembly ==
    [][(ElanDecodeStep /\ etd.hw_version = 3) =>
        /\ V3First(packet') =>
              /\ events' = <<>>
              /\ ret' = PSMOUSE_FULL_PACKET
              /\ \A i \in 0 .. 5 : etd'.parity[i] = packet'[i]
        /\ (/\ Decoded /\ V3First(packet) /\ V3Second(packet')
            /\ V3InBounds(etd, packet) /\ V3InBounds(etd, packet')) =>
              /\ Syncs(events') = 1
              /\ Len(events') >= 8
              /\ SubSeq(events', 1, 8) =
                    << MtSlot(0), MtSlotState(1),
                       Abs("ABS_MT_POSITION_X", V3X(packet)),
                       Abs("ABS_MT_POSITION_Y", etd.y_max - V3RawY(packet)),
                       MtSlot(1), MtSlotState(1),
                       Abs("ABS_MT_POSITION_X", V3X(packet')),
                       Abs("ABS_MT_POSITION_Y", etd.y_max - V3RawY(packet')) >>]_vars

\* the frame of a pair: first half at (0x100, y_max - 0x100), second half at
\* (0x200, y_max - 0x200)
C1_Witness ==
    /\ Decoded /\ etd.hw_version = 3 /\ V3Second(packet)
    /\ etd.parity[0] = \H84 /\ etd.parity[1] = 1
    /\ Len(events) >= 8
    /\ events[3] = Abs("ABS_MT_POSITION_X", \H100)
    /\ events[6] = MtSlotState(1)
    /\ events[7] = Abs("ABS_MT_POSITION_X", \H200)

\* revision 1: the parity bits of byte 0 against the table
V1ParityMismatch(e, p) ==
    LET old == e.fw_version < 131072
        p1 == IF old THEN Bit(p[0], 5) ELSE Bit(p[0], 4)
        p2 == IF old THEN Bit(p[0], 4) ELSE Bit(p[0], 5)
        p3 == Bit(p[0], 2)
    IN \/ (e.parity[p[1]] = 1) # p1
       \/ (e.parity[p[2]] = 1) # p2
       \/ (e.parity[p[3]] = 1) # p3

\* C5: every complete revision-1 packet in which one of the three parity bits of
\* byte 0 differs from the parity-table value of byte 1, 2 or 3 is reported as bad
\* data and produces no input event and no commit.
C5_ParityAlwaysChecked ==
    [][(ElanDecodeStep /\ etd.hw_version = 1 /\ V1ParityMismatch(etd, packet')) =>
        (ret' = PSMOUSE_BAD_DATA /\ events' = <<>>)]_vars

\* C5 as amended: the same while the paritycheck attribute is not 0, the value
\* elantech_init gives it on revision 1.
C5_ParityCheckedWhenEnabled ==
    [][(/\ ElanDecodeStep /\ etd.hw_version = 1 /\ etd.paritycheck # 0
        /\ V1ParityMismatch(etd, packet')) =>
        (ret' = PSMOUSE_BAD_DATA /\ events' = <<>> /\ etd' = etd)]_vars

\* a packet in which only p3 is wrong, refused
C5_Witness ==
    /\ Decoded /\ etd.hw_version = 1 /\ etd.paritycheck # 0
    /\ packet[0] = \H78 /\ packet[1] = 0 /\ packet[2] = 0 /\ packet[3] = 0
    /\ ret = PSMOUSE_BAD_DATA /\ events = <<>>

\* the packet whose fields give slot 0's position in a revision-3 frame
V3Slot0Source(e, p) == IF V3Count(p) = 2 THEN e.parity ELSE p
V3Crazy(e, p) ==
    /\ V3Count(p) > 0 /\ ~V3First(p)
    /\ ~V3InBounds(e, V3Slot0Source(e, p))

\* C6: when the decoded position exceeds x_max or y_max while the finger count is
\* greater than 0, the position reports are suppressed but the button state and
\* the touch/tool reports of the packet are still emitted and committed.
C6_ButtonsStillReported ==
    [][(ElanDecodeStep /\ etd.hw_version = 3 /\ V3Crazy(etd, packet')) =>
        /\ Syncs(events') = 1
        /\ HasEvent(events', "KEY", "BTN_LEFT")
        /\ HasEvent(events', "KEY", "BTN_TOUCH")
        /\ ~HasEvent(events', "ABS", "ABS_X")
        /\ ~HasEvent(events', "ABS", "ABS_MT_POSITION_X")]_vars

\* C6 as amended: such a packet is dropped whole: no position, no button, no
\* touch/tool report and no commit; the decoder returns PSMOUSE_FULL_PACKET and
\* the session is unchanged.
C6_CrazyPacketDropped ==
    [][(ElanDecodeStep /\ etd.hw_version = 3 /\ V3Crazy(etd, packet')) =>
        (events' = <<>> /\ ret' = PSMOUSE_FULL_PACKET /\ etd' = etd)]_vars

\* one finger, left button down, y beyond y_max only: nothing reported
C6_Witness ==
    /\ Decoded /\ etd.hw_version = 3
    /\ V3Count(packet) = 1 /\ V3X(packet) <= etd.x_max /\ V3RawY(packet) > etd.y_max
    /\ events = <<>> /\ ret = PSMOUSE_FULL_PACKET

\* revision 1: the finger count of a packet
V1Count(e, p) ==
    IF e.fw_version < 131072
    THEN (p[1] \div 128) + ((p[1] \div 16) % 4)
    ELSE p[0] \div 64

\* C7: on revisions 1 and 2, decoding the same complete packet twice in succession
\* yields two identical outputs, whatever the session's mutable state, the
\* jumpy-cursor quirk included.
C7_Idempotent ==
    [][(ElanDecodeStep /\ repeated' /\ etd.hw_version \in {1, 2}) =>
        (events' = events /\ ret' = ret)]_vars

\* C7 as amended: the same for revision 2, for revision 1 without the quirk, and
\* with the quirk for every packet whose finger count is not 1.
C7_IdempotentButJumpy ==
    [][(/\ ElanDecodeStep /\ repeated' /\ etd.hw_version \in {1, 2}
        /\ (etd.hw_version = 2 \/ ~etd.jumpy_cursor \/ V1Count(etd, packet') # 1)) =>
        (events' = events /\ ret' = ret)]_vars

\* a single-finger packet decoded twice in a row by a revision-1 session without
\* the quirk, reported the second time
C7_Witness ==
    /\ Decoded /\ repeated /\ etd.hw_version = 1 /\ ~etd.jumpy_cursor
    /\ V1Count(etd, packet) = 1
    /\ Syncs(events) = 1 /\ HasEvent(events, "ABS", "ABS_X")

\* the signatures the magic knock is compared with, and the plausibility filter
\* on the reply to the firmware version query
AcceptedKnock(k) == k \in { <<60, 3, 200>>, <<60, 3, 0>> }
PlausibleVersion(v) ==
    v[1] # 0 /\ (v[2] = 0 \/ v[3] \notin {10, 20, 40, 60, 80, 100, 200})
DetectDone == op = "elantech_detect"

C13_InitFailureLeavesNothing ==
    (op = "elantech_init" /\ ret # "0") => (priv = "null" /\ mode = "default")

\* a revision-3 device whose geometry query fails: elantech_init has returned -1,
\* psmouse->private points at the freed session and the device is in absolute mode
C13_Witness ==
    /\ op = "elantech_init" /\ ret = "-1"
    /\ arg.absmode_ok /\ Failed(arg.geometry) /\ arg.fw = <<\H45, \H0f, 0>>
    /\ priv = "freed" /\ mode = "extended"

\* a revision-3 second-half packet has just been decoded into a frame
V3FrameFromSecondHalf ==
    ElanDecodeStep /\ etd.hw_version = 3 /\ V3Second(packet') /\ events' # <<>>

\* C19: on revision 3 a two-finger frame is emitted only when the packet before
\* it was a first-half packet of the session; a second-half packet at session
\* start or after any other packet emits no frame built from the stash
C19_FramesOnlyFromFreshPair ==
    [][V3FrameFromSecondHalf => V3First(packet)]_vars

\* C19: a second-half packet has been decoded into a frame on a session whose
\* stash was never written: slot 0 is at X = 0, Y = y_max - 1, read out of the
\* parity table
C19_Witness ==
    /\ Decoded /\ etd.hw_version = 3 /\ V3Second(packet)
    /\ etd.parity = ParityInit
    /\ \E i \in 1 .. Len(events) - 1 :
          /\ events[i] = Abs("ABS_MT_POSITION_X", 0)
          /\ events[i + 1] = Abs("ABS_MT_POSITION_Y", etd.y_max - 1)

\* the values reported under an axis code in a frame
AxisValues(ev, code) == { ev[i][3] : i \in { k \in 1 .. Len(ev) : ev[k][1] = "ABS" /\ ev[k][2] = code } }
\* a revision-3 frame with fingers on the pad has just been reported
V3TouchFrame == Decoded /\ etd.hw_version = 3 /\ events # <<>> /\ V3Count(packet) > 0

\* C21: every slot position of a revision-3 frame with finger count above 0, of
\* slot 0 and of slot 1, lies within 0..x_max by 0..y_max; a packet or pair with
\* a decoded position beyond the bounds produces no report
C21_EveryPositionInBounds ==
    V3TouchFrame =>
        /\ \A x \in AxisValues(events, "ABS_MT_POSITION_X") : 0 <= x /\ x <= etd.x_max
        /\ \A y \in AxisValues(events, "ABS_MT_POSITION_Y") : 0 <= y /\ y <= etd.y_max

\* C21: a two-finger frame has been reported whose second-half packet decodes to
\* an X beyond x_max, and that X is in the frame
C21_Witness ==
    /\ V3TouchFrame /\ V3Second(packet)
    /\ V3X(packet) > etd.x_max
    /\ V3X(packet) \in AxisValues(events, "ABS_MT_POSITION_X")

\* the fields of a revision-2 packet: finger count, 11-bit X and 10-bit raw Y
V2Count(p) == p[0] \div 64
V2X(p) == ((p[1] % 8) * 256) + p[2]
V2RawY(p) == ((p[4] % 4) * 256) + p[5]
V2OneFinger == Decoded /\ etd.hw_version = 2 /\ V2Count(packet) = 1

\* C18: a revision-2 packet with finger count 1 reports X and y_max - raw Y on
\* the legacy axes and on slot 0, which is the only active slot (slot 1 is
\* reported inactive); X = 500 and raw Y = 300 with y_max = 768 give X = 500,
\* Y = 468
C18_V2OneFinger ==
    V2OneFinger =>
        LET x == V2X(packet)
            y == etd.y_max - V2RawY(packet)
        IN /\ Len(events) >= 9
           /\ SubSeq(events, 1, 9) =
                 <<Key("BTN_TOUCH", 1), Abs("ABS_X", x), Abs("ABS_Y", y),
                   MtSlot(0), MtSlotState(1),
                   Abs("ABS_MT_POSITION_X", x), Abs("ABS_MT_POSITION_Y", y),
                   MtSlot(1), MtSlotState(0)>>
           /\ Cardinality({i \in 1 .. Len(events) : events[i] = MtSlotState(1)}) = 1
           /\ ~HasEvent(SubSeq(events, 10, Len(events)), "ABS", "ABS_MT_POSITION_X")
           /\ (x = 500 /\ V2RawY(packet) = 300 /\ etd.y_max = 768) => y = 468

\* C18: the packet with X = 500 and raw Y = 300 has been decoded on a session
\* with y_max = 768, and Y = 468 is in the frame
C18_Witness ==
    /\ V2OneFinger /\ etd.y_max = 768
    /\ V2X(packet) = 500 /\ V2RawY(packet) = 300
    /\ \E i \in 1 .. Len(events) : events[i] = Abs("ABS_MT_POSITION_Y", 468)

\* i & (i - 1): i without its lowest set bit
ClearLowestBit(i) ==
    i - (CHOOSE k \in {1, 2, 4, 8, 16, 32, 64, 128} : i % k = 0 /\ (i \div k) % 2 = 1)
\* the XOR of the eight bits of b
PopParity(b) == Cardinality({j \in 0 .. 7 : Bit(b, j)}) % 2

\* C8: after session creation parity_table[0] = 1 and, for every i in 1..255,
\* parity_table[i] = parity_table[i & (i - 1)] XOR 1.
C8_ParityRecurrence ==
    Created =>
        /\ etd.parity[0] = 1
        /\ \A i \in 1 .. 255 :
              /\ etd.parity[i] \in {0, 1}
              /\ etd.parity[i] = 1 - etd.parity[ClearLowestBit(i)]

C8_Witness ==
    /\ Created
    /\ etd.parity[1] = 0 /\ etd.parity[6] = 1 /\ etd.parity[255] = 1

\* C9: after session creation parity_table[b] is the population parity of b, the
\* XOR of its eight bits, for every byte b.
C9_TableIsPopParity ==
    Created => \A b \in 0 .. 255 : etd.parity[b] = PopParity(b)

\* C9 as amended: parity_table[b] is the complement of the population parity of b:
\* 1 when b has an even number of bits set, 0 when it has an odd number.
C9_TableIsComplementOfPopParity ==
    Created => \A b \in 0 .. 255 : etd.parity[b] = 1 - PopParity(b)

C9_Witness ==
    /\ Created
    /\ etd.parity[0] = 1 /\ etd.parity[3] = 1 /\ etd.parity[7] = 0

\* C10: the parity table is computed once at session creation and no later
\* operation changes any of its 256 entries for the lifetime of the session.
C10_TableNeverChanges ==
    [][(priv = "valid" /\ priv' = "valid") => etd'.parity = etd.parity]_vars

\* C10 as amended: no later operation changes entries 6..255, and the only
\* operation that changes any entry is the revision-3 decoder, which on a first-half
\* packet overwrites entries 0..5 with the six bytes of the packet.
C10_TableChangesOnlyByStash ==
    [][(priv = "valid" /\ priv' = "valid") =>
        /\ \A i \in 6 .. 255 : etd'.parity[i] = etd.parity[i]
        /\ etd'.parity # etd.parity =>
              /\ ElanDecodeStep /\ etd.hw_version = 3 /\ V3First(packet')
              /\ \A i \in 0 .. 5 : etd'.parity[i] = packet'[i]]_vars

\* a revision-3 session whose table holds a stashed packet in entries 0..5
C10_Witness ==
    /\ priv = "valid" /\ etd.hw_version = 3
    /\ etd.parity[0] = \H85 /\ etd.parity[1] = \H0f
    /\ etd.parity[6] = 1 /\ etd.parity[7] = 0

\* ---------------------------------------------------------------------------
\* Register access: elantech_read_reg and elantech_write_reg called on their
\* own on a created session
\* ---------------------------------------------------------------------------

\* register addresses on both sides of every comparison of the address checks
RegAddrs == {\H00, \H0f, \H10, \H11, \H12, \H1f, \H20, \H21, \H26, \H27, \Hff}
\* values written and read
RegValues == {\H00, \H16}
\* links: every pattern of success and failure over the first MaxRegLink calls,
\* a single failure at each later call of the longest chain, and three failures
\* in a row after any number of successes below the longest chain
LinkFailsOnceAt(j) == [k \in 1 .. j |-> IF k = j THEN -1 ELSE 0]
LinkFailsAfter(n) == [k \in 1 .. (n + 3) |-> IF k <= n THEN 0 ELSE -1]
RegLinks ==
    UNION { [1 .. n -> {0, -1}] : n \in 0 .. MaxRegLink }
    \cup { LinkFailsOnceAt(j) : j \in 1 .. 7 }
    \cup { LinkFailsAfter(n) : n \in 0 .. 6 }
\* register accesses: every address on a good and on a dead link, a legal address
\* on every link
RegCalls ==
    { [reg |-> r, link |-> l] : r \in RegAddrs, l \in {<<>>, HardFail} }
    \cup { [reg |-> \H10, link |-> l] : l \in RegLinks }

RegRead(reg, link, reply) ==
    /\ priv = "valid" /\ etd.hw_version \in {1, 2, 3}
    /\ LET r == elantech_read_reg(etd, reg, link)
       IN /\ ret' = IF r.rc = 0 THEN "0" ELSE "-1"
          /\ ncmds' = r.calls
          /\ regval' = IF r.rc = 0 THEN reply ELSE regval
    /\ arg' = [reg |-> reg, link |-> link]
    /\ op' = "elantech_read_reg"
    /\ UNCHANGED <<fingers, pressed, geom, priv, etd, packet, events, npackets, pending,
                   repeated, pktcnt, mode, touched, nbytes, regops, run, char_signed>>

RegWrite(reg, val, link) ==
    /\ priv = "valid" /\ etd.hw_version \in {1, 2, 3}
    /\ LET r == elantech_write_reg(etd, reg, val, link)
       IN /\ ret' = IF r.rc = 0 THEN "0" ELSE "-1"
          /\ ncmds' = r.calls
    /\ arg' = [reg |-> reg, val |-> val, link |-> link]
    /\ op' = "elantech_write_reg"
    /\ UNCHANGED <<fingers, pressed, geom, priv, etd, packet, events, npackets, pending,
                   repeated, pktcnt, mode, regval, touched, nbytes, regops, run, char_signed>>

\* focaltech_switch_protocol called on a FocalTech session, as focaltech_reconnect
\* does
FocSwitchProtocol(link) ==
    /\ priv = "valid" /\ etd.hw_version = 0
    /\ LET r == focaltech_switch_protocol(link)
       IN /\ ret' = r.rc
          /\ ncmds' = r.calls
    /\ arg' = [link |-> link]
    /\ op' = "focaltech_switch_protocol"
    /\ UNCHANGED <<fingers, pressed, geom, priv, etd, packet, events, npackets, pending,
                   repeated, pktcnt, mode, regval, touched, nbytes, regops, run, char_signed>>

\* a session of either family, just created
InitReg ==
    /\ fingers = FocZeroFingers
    /\ pressed = FALSE
    /\ geom = FocZeroGeom
    /\ priv = "valid"
    /\ etd \in {NoSession} \cup ByteSessions
    /\ packet = Pkt(<<0, 0, 0, 0, 0, 0>>)
    /\ events = <<>>
    /\ ret = "0"
    /\ op = IF etd.hw_version = 0 THEN "focaltech_init" ELSE "elantech_init"
    /\ npackets = 0
    /\ pending = [i \in Slots |-> FALSE]
    /\ repeated = FALSE
    /\ pktcnt = 0
    /\ mode = "extended"
    /\ ncmds = 0
    /\ regval = 0
    /\ regops = NoRegOps
    /\ run = NoRun
    /\ char_signed = TRUE
    /\ arg = NoArg
    /\ touched = {}
    /\ nbytes = 0

NextReg ==
    \/ \E c \in RegCalls, reply \in RegValues : RegRead(c.reg, c.link, reply)
    \/ \E c \in RegCalls, val \in RegValues : RegWrite(c.reg, val, c.link)
    \/ \E link \in RegLinks : FocSwitchProtocol(link)

SpecReg == InitReg /\ [][NextReg]_vars

\* the two legal ranges of register addresses
LegalReg(reg) == reg \in (16..17) \cup (32..38)
RegAccessDone == op \in {"elantech_read_reg", "elantech_write_reg"}

\* C16: every register read or write with an address outside 0x10..0x11 and
\* 0x20..0x26 returns an error and attempts no transport command, and every one
\* with a legal address attempts at least one transport command
C16_AddressValidation ==
    RegAccessDone =>
        IF LegalReg(arg.reg) THEN ncmds >= 1 ELSE ret = "-1" /\ ncmds = 0

\* C16: a write to a legal address on a revision-3 session has returned success
\* without any transport command
C16_Witness ==
    /\ op = "elantech_write_reg" /\ etd.hw_version = 3
    /\ LegalReg(arg.reg) /\ ret = "0" /\ ncmds = 0

\* ---------------------------------------------------------------------------
\* Initialisation alone: elantech_init against firmware versions and probe
\* replies on both sides of every threshold of the revision selection
\* ---------------------------------------------------------------------------

RevFwReplies ==
    { Fail, <<0, 0, 0>>, <<1, 0, 0>>, <<2, 0, \H2f>>, <<2, 0, \H30>>, <<2, 8, 0>>,
      <<\H14, 0, 0>>, <<\H14, 0, \Hff>>, <<\H14, 1, 0>>, <<\H45, \H0f, 0>>,
      <<\Hff, \Hff, \Hff>> }
RevProbeReplies ==
    { Fail, <<5, 6, 0>>, <<4, 6, 0>>, <<5, 5, 0>>, <<\H15, \H16, 0>>, <<\Hf4, \H06, 0>>,
      <<\H05, \Hf5, 0>>, <<\H0f, \H0f, 0>> }
InitBehaviours ==
    [alloc_ok : {TRUE}, fw : RevFwReplies, probe1 : RevProbeReplies,
     probe2_ok : BOOLEAN, caps : {Fail, <<0, 0, 0>>}, absmode_ok : BOOLEAN,
     geometry : GeometryReplies, sysfs_ok : {TRUE}]

NextInit ==
    \/ ElanDetect(TRUE, <<\H3c, \H03, \Hc8>>, <<2, 6, 0>>, FALSE)
    \/ \E dev \in InitBehaviours, wrote \in BOOLEAN : ElanInit(dev, wrote)
    \/ ElanDisconnect

SpecInit == InitElan /\ [][NextInit]_vars

\* the revision the thresholds give for a version reply and the probes' outcome;
\* 0 for none
ExpectedRevision(d) ==
    LET fw == (d.fw[1] * 65536) + (d.fw[2] * 256) + d.fw[3]
        masked == (d.fw[1] * 65536) + (d.fw[2] * 256)
        probed == /\ d.probe1 # Fail /\ d.probe2_ok
                  /\ d.probe1[1] % 16 >= 5 /\ d.probe1[2] % 16 >= 6
    IN IF fw < 131120 THEN 1
       ELSE IF masked <= 1310720 THEN 2
       ELSE IF probed THEN 3
       ELSE 0
\* an elantech_init call that got as far as the version reply
RevisionSelected == op = "elantech_init" /\ arg.alloc_ok /\ arg.fw # Fail
\* every step of elantech_init after the revision selection succeeds
RestOfInitOk(d) ==
    /\ d.caps # Fail /\ d.absmode_ok /\ d.sysfs_ok
    /\ ExpectedRevision(d) = 3 => d.geometry # Fail

\* C17: the revision is 1 for a version below 0x020030, else 2 when the version
\* without its micro byte is at most 0x140000, else 3 exactly when both probes
\* succeed with (byte0 & 0x0f) >= 5 and (byte1 & 0x0f) >= 6; in every other case
\* elantech_init fails and no session is left
C17_RevisionSelection ==
    RevisionSelected =>
        IF ExpectedRevision(arg) = 0
        THEN ret = "-1" /\ priv # "valid"
        ELSE /\ ret = "0" => etd.hw_version = ExpectedRevision(arg)
             /\ RestOfInitOk(arg) => ret = "0"

\* C17: revision 3 has been selected on probe replies whose high nibbles are set
C17_Witness ==
    /\ RevisionSelected /\ ret = "0" /\ etd.hw_version = 3
    /\ arg.probe1 = <<\H15, \H16, 0>>

\* the result of the k-th transport call on a link
Attempt(l, k) == IF k \in DOMAIN l THEN l[k] ELSE 0
\* the transport calls of a link that fail
FailedCalls(l) == { k \in DOMAIN l : l[k] # 0 }
\* a register access with a legal address, or a protocol switch, has been made
LinkOpDone ==
    \/ RegAccessDone /\ LegalReg(arg.reg)
    \/ op = "focaltech_switch_protocol"
\* the operation is built from the retrying primitive
RetriedOp == RegAccessDone /\ etd.hw_version \in {2, 3}
\* the commands the operation issues when none fails
PlainLength ==
    CASE op = "focaltech_switch_protocol" -> 6
      [] op = "elantech_write_reg" -> 4
      [] op = "elantech_read_reg" -> 3

SucceededCalls(l, n) == { k \in 1 .. n : Attempt(l, k) = 0 }

\* C29: on every revision and for every legal address, elantech_write_reg
\* returns 0 only after the revision's whole command sequence has been issued
\* and each of its commands has succeeded, and never without transport I/O
C29_WriteOkOnlyAfterWriting ==
    (op = "elantech_write_reg" /\ LegalReg(arg.reg) /\ ret = "0") =>
        /\ ncmds >= 1
        /\ etd.hw_version = 1 => Cardinality(SucceededCalls(arg.link, ncmds)) = 4
        /\ etd.hw_version = 2 => Cardinality(SucceededCalls(arg.link, ncmds)) = 7

\* C29: a revision-3 write to a legal address has returned 0 over a dead link,
\* no call having been made
C29_Witness ==
    /\ op = "elantech_write_reg" /\ etd.hw_version = 3
    /\ arg.reg = 16 /\ arg.link = HardFail
    /\ ret = "0" /\ ncmds = 0

\* ---------------------------------------------------------------------------
\* The retrying command primitive called on its own, against every pattern of
\* transport results
\* ---------------------------------------------------------------------------

\* results of a transport call: success, and two different errors
LinkResults == {0, -1, -5}
CmdLinks == UNION { [1 .. n -> LinkResults] : n \in 0 .. MaxLink }
\* an int result as the strings ret holds
RcName(rc) == CASE rc = 0 -> "0" [] rc = -1 -> "-1" [] rc = -5 -> "-EIO" [] OTHER -> "error"

PsCommand(link) ==
    /\ priv = "valid" /\ etd.hw_version \in {1, 2, 3}
    /\ LET r == elantech_ps2_command(link, 0)
       IN /\ ret' = RcName(r.rc)
          /\ ncmds' = r.calls
    /\ arg' = [link |-> link]
    /\ op' = "elantech_ps2_command"
    /\ UNCHANGED <<fingers, pressed, geom, priv, etd, packet, events, npackets, pending,
                   repeated, pktcnt, mode, regval, touched, nbytes, regops, run, char_signed>>

NextCmd == \E link \in CmdLinks : PsCommand(link)

SpecCmd == InitReg /\ [][NextCmd]_vars

PsCommandDone == op = "elantech_ps2_command"

\* C23: the retrying command primitive makes at least 1 and at most 3 transport
\* calls, none after the first success; it returns success exactly when one of
\* its attempts succeeded, and otherwise the error of its last attempt
C23_BoundedRetry ==
    PsCommandDone =>
        /\ 1 <= ncmds /\ ncmds <= 3
        /\ \A k \in 1 .. (ncmds - 1) : Attempt(arg.link, k) # 0
        /\ (ret = "0") <=> (\E k \in 1 .. ncmds : Attempt(arg.link, k) = 0)
        /\ ret # "0" => (ncmds = 3 /\ ret = RcName(Attempt(arg.link, ncmds)))

\* C23: three attempts have failed, the first with another error than the last,
\* whose error is returned
C23_Witness ==
    /\ PsCommandDone /\ ncmds = 3
    /\ Attempt(arg.link, 1) = -1 /\ Attempt(arg.link, 3) = -5
    /\ ret = "-EIO"

\* ---------------------------------------------------------------------------
\* The mode switch called on its own on a created session
\* ---------------------------------------------------------------------------

\* a link that works for n calls and then fails for m calls
LinkWindow(n, m) == [k \in 1 .. (n + m) |-> IF k <= n THEN 0 ELSE -1]
\* links on which a write fails (revision 1 fails at a single failed call, before
\* its first or second write; revision 2 at three in a row, before its first,
\* second or third write; revision 3 in either half of elantech_mode_command),
\* and links on which the first 1 to ETP_READ_BACK_TRIES read-backs fail, after
\* the 8 calls of the writes of revision 1 and the 21 of revision 2
AbsLinks ==
    {<<>>}
    \cup { LinkWindow(n, 1) : n \in {0, 4} }
    \cup { LinkWindow(n, 3) : n \in {0, 7, 14} }
    \cup { LinkWindow(8, j) : j \in 1 .. ETP_READ_BACK_TRIES }
    \cup { LinkWindow(21, 3 * j) : j \in 1 .. ETP_READ_BACK_TRIES }
\* the byte answered to a read: with and without the absolute mode bit
AbsValues == {\H0f, \H50}

SetAbsoluteMode(link, val) ==
    /\ priv = "valid" /\ etd.hw_version \in {1, 2, 3}
    /\ LET r == elantech_set_absolute_mode(etd, [link |-> link, val |-> val])
       IN /\ etd' = r.etd
          /\ ret' = IF r.rc = 0 THEN "0" ELSE "-1"
          /\ regops' = [writes |-> r.writes, reads |-> r.reads,
                        write_failed |-> r.write_failed, read_ok |-> r.read_ok]
          /\ regval' = IF r.read_ok THEN val ELSE regval
          /\ mode' = ModeAfterAbsolute(mode, r.rc = 0, r.wrote)
    /\ arg' = [link |-> link, val |-> val]
    /\ op' = "elantech_set_absolute_mode"
    /\ UNCHANGED <<fingers, pressed, geom, priv, packet, events, npackets, pending,
                   repeated, pktcnt, ncmds, touched, nbytes, run, char_signed>>

NextAbs == \E link \in AbsLinks, val \in AbsValues : SetAbsoluteMode(link, val)

SpecAbs == InitReg /\ [][NextAbs]_vars

\* elantech_set_absolute_mode has run on a session of revision 1 or 2
AbsModeDone == op = "elantech_set_absolute_mode" /\ etd.hw_version \in {1, 2}

\* C24: on revisions 1 and 2 register 0x10 is read back after the writes, at
\* most a bounded number of times; revision 1 returns ok only if a read
\* succeeded and the value read has the absolute mode bit; revision 2 returns
\* ok whenever a read succeeds, whatever the value; if a register write fails
\* no read-back is attempted and the result is an error
C24_ReadBack ==
    AbsModeDone =>
        /\ regops.reads <= ETP_READ_BACK_TRIES
        /\ regops.reads > 0 =>
              (~regops.write_failed /\ regops.writes = (IF etd.hw_version = 1 THEN 2 ELSE 3))
        /\ ~regops.write_failed => regops.reads >= 1
        /\ (etd.hw_version = 1 /\ ret = "0") => (regops.read_ok /\ (arg.val \div 4) % 2 = 1)
        /\ (etd.hw_version = 2 /\ regops.read_ok) => ret = "0"
        /\ ret = "0" => regops.read_ok
        /\ regops.write_failed => (regops.reads = 0 /\ ret = "-1")

\* C24: on revision 1 the fifth read-back has succeeded, and the value read
\* lacks the absolute mode bit: error
C24_Witness ==
    /\ AbsModeDone /\ etd.hw_version = 1
    /\ regops.reads = 5 /\ regops.read_ok
    /\ arg.val = 80 /\ ret = "-1"

\* ---------------------------------------------------------------------------
\* The revision 1 decoder fed with packets in a row, with the history of the
\* run of single-finger packets.

\* the cap of the run history: the third and every later packet of a run count alike
RunCap == 3

\* the run history after packet p was handed to elantech_process_byte: a packet
\* rejected by the parity check never reaches the decoder and leaves the history
\* alone; a packet with two or more fingers starts a run; a single-finger packet
\* continues the run; a packet without finger ends it
RunAfter(e, p, r) ==
    IF elantech_process_byte(e, p).ret # PSMOUSE_FULL_PACKET THEN r
    ELSE LET n == V1Fingers(e, p)
         IN IF n >= 2 THEN [armed |-> TRUE, n |-> 0]
            ELSE IF n = 1
            THEN (IF r.armed
                  THEN [armed |-> TRUE, n |-> IF r.n < RunCap THEN r.n + 1 ELSE RunCap]
                  ELSE r)
            ELSE NoRun

ElanTrackedByte(p) ==
    /\ etd.hw_version = 1
    /\ ElanByteStep(p)
    /\ run' = RunAfter(etd, p, run)

InitJumpy ==
    /\ InitReg
    /\ etd.hw_version = 1

\* more revision 1 packets: bits 5-4 of byte 1 alone, and bit 7 with bit 5 (three
\* fingers on a firmware below 0x020000)
V1ToolPackets ==
    { Pkt(<<b0, b1, 0, 0>>) : b0 \in {\H3c, \H5c, \H6c, \H48}, b1 \in {\H30, \Ha0} }

NextJumpy == \E p \in V1Packets \cup V1ToolPackets : ElanTrackedByte(p)

SpecJumpy == InitJumpy /\ [][NextJumpy]_vars

\* the last step handed a single-finger packet to the revision 1 decoder
SingleDecoded ==
    /\ op = "elantech_process_byte"
    /\ etd.hw_version = 1
    /\ ret = PSMOUSE_FULL_PACKET
    /\ V1Fingers(etd, packet) = 1

\* the last step handed a packet to the revision 1 decoder
V1Decoded ==
    /\ op = "elantech_process_byte"
    /\ etd.hw_version = 1
    /\ ret = PSMOUSE_FULL_PACKET

\* C25: on revision 1 with the jumpy cursor quirk active, the first and the second
\* single-finger packet decoded in a row after a packet with two or more fingers
\* produce no event, and the third and every later one of that run produces a frame
\* closed by a sync; with the quirk inactive every decoded packet produces a frame.
C25_JumpyDebounce ==
    /\ (SingleDecoded /\ etd.jumpy_cursor /\ run.armed /\ run.n \in {1, 2})
            => events = <<>>
    /\ (SingleDecoded /\ etd.jumpy_cursor /\ run.armed /\ run.n >= 3)
            => (events # <<>> /\ events[Len(events)] = Sync
                /\ \E i \in 1 .. Len(events) : events[i] = Key("BTN_TOOL_FINGER", 1))
    /\ (V1Decoded /\ ~etd.jumpy_cursor)
            => (events # <<>> /\ events[Len(events)] = Sync)

\* the third single-finger packet of a run after a multi-finger packet was decoded
\* with the quirk active, and produced a frame
C25_Witness ==
    /\ SingleDecoded
    /\ etd.jumpy_cursor
    /\ run.armed
    /\ run.n = 3
    /\ events # <<>>

\* the value of the key event with this code in the frame ev, 0 when there is none
KeyValue(ev, code) ==
    IF \E k \in 1 .. Len(ev) : ev[k][1] = "KEY" /\ ev[k][2] = code /\ ev[k][3] = 1
    THEN 1 ELSE 0

\* the one-, two- and three-finger tool flags set in the frame ev
ToolFlagsSet(ev) ==
    {c \in {"BTN_TOOL_FINGER", "BTN_TOOL_DOUBLETAP", "BTN_TOOL_TRIPLETAP"} :
        KeyValue(ev, c) = 1}

\* C30: on revision 1, for every 4-byte packet and both firmware generations
\* (fw_version below and from 0x020000), the finger count derived from the packet
\* lies in 0..3, and a frame reports exactly one of the tool states none, one, two,
\* three: touch iff the count is not 0, no tool flag for count 0 and exactly one of
\* the three tool flags otherwise.
C30_FingerCountAndTool ==
    V1Decoded =>
        /\ V1Count(etd, packet) \in 0 .. 3
        /\ events # <<>> =>
              /\ KeyValue(events, "BTN_TOUCH") = 1 <=> V1Count(etd, packet) # 0
              /\ V1Count(etd, packet) = 0 => ToolFlagsSet(events) = {}
              /\ V1Count(etd, packet) # 0 => Cardinality(ToolFlagsSet(events)) = 1

\* a packet with bits 7, 5 and 4 of byte 1 set was decoded on a firmware below
\* 0x020000: the frame reports touch and none of the three tool flags
C30_Witness ==
    /\ V1Decoded
    /\ etd.fw_version < 131072
    /\ packet[1] = 176
    /\ V1Count(etd, packet) = 4
    /\ KeyValue(events, "BTN_TOUCH") = 1
    /\ ToolFlagsSet(events) = {}

====
